---- MODULE Spec2Model ----
(***************************************************************************)
(* The poll / diff / notify loops of the MiloBot watcher cogs.             *)
(*                                                                         *)
(* One bot process runs every cog that main.load_cogs could construct, but  *)
(* the cogs share no mutable state (spec.md, "Concurrency model"), so a    *)
(* behaviour of this module follows ONE cog, chosen in Init and kept in    *)
(* `cog`.  bot.cogs.minecraft_news is not among them: its constructor      *)
(* raises AttributeError and load_cogs goes on without it.  Each @tasks.loop body is    *)
(* one action: discord.ext.tasks never re-enters a loop body, and nothing  *)
(* else writes the cog's attributes.  What the network, the LLM and        *)
(* Discord do is an input of the action (\E): the value a fetch returns or *)
(* the fact that it raises, whether bot.get_channel finds the channel, and *)
(* the outcome of each notification.  One of these outcomes is the         *)
(* cancellation of the loop task while the notification is suspended:      *)
(* Admin.restart closes the bot, which unloads the cogs, and cog_unload    *)
(* cancels the task wherever it stands.  The iteration then ends there     *)
(* (last.op = "cancelled"), and the next step is Restart.                  *)
(***************************************************************************)
EXTENDS Naturals, Integers, Sequences, FiniteSets, TLC

\* ------------------------------------------------------------------ bounds
MaxFetch == 2      \* longest list a fetch returns

\* config.Settings: the channel ids of the frozen dataclass (bot.settings).
Settings ==
    {"briefing_channel_id", "log_channel_id", "ask_ai_channel_id", "fun_channel_id",
     "event_channel_id", "requests_channel_id", "patch_notes_channel_id",
     "wow_channel_id", "nintendo_channel_id", "shopping_list_channel_id",
     "birthday_reminder_channel_id", "birthday_commands_channel_id",
     "trump_speech_channel_id", "sc_youtube_channel_id", "ai_news_channel_id"}

\* The watcher extensions of bot/cogs, each with the attribute of bot.settings that
\* its cog reads first in __init__ (self.channel_id = settings.<attribute>).
Extensions ==
    [sc_youtube |-> "sc_youtube_channel_id",
     patch_notes |-> "patch_notes_channel_id",
     nintendo_watcher |-> "nintendo_channel_id",
     minecraft_news |-> "minecraft_news_channel_id",
     wow_patch_notes |-> "wow_channel_id",
     rsi_status |-> "patch_notes_channel_id",
     ai_news |-> "ai_news_channel_id",
     trump_speech |-> "trump_speech_channel_id"]

\* MinecraftNews.__init__: line 85 reads settings.minecraft_news_channel_id, which
\* Settings does not have.  The AttributeError leaves __init__ before _load_seen
\* (line 86) and before check_minecraft_news.start() (line 88): no MinecraftNews
\* object exists, its loop never runs and data/minecraft_news.json is never written.
MinecraftNews_init ==
    IF Extensions.minecraft_news \in Settings THEN "constructed" ELSE "AttributeError"

\* main.load_cogs: an extension whose setup raises is logged ("Failed to load cog")
\* and skipped.  These are the watcher cogs the process runs.
Cogs ==
    {c \in DOMAIN Extensions :
        IF c = "minecraft_news" THEN MinecraftNews_init = "constructed"
        ELSE Extensions[c] \in Settings}

VARIABLES
    cog,              \* the cog this behaviour follows
    first_run,        \* self._first_run of the cog
    seen_video_ids,   \* SCYouTubeWatcher.seen_video_ids
    yt_file,          \* data/sc_youtube.json (its JSON text)
    seen_thread_ids,  \* PatchNotes.seen_thread_ids
    seen_ids,         \* NintendoWatcher.seen_ids
    wow_seen_guids,   \* WoWPatchNotes.seen_guids
    wow_seen_links,   \* WoWPatchNotes.seen_links
    rsi_seen_guids,   \* RSIStatus.seen_guids (guid -> last title)
    ai_seen,          \* AINews.seen (a dict: provider -> list of urls)
    ai_file,          \* data/ai_news.json (its JSON text)
    ts_seen_video_ids, \* TrumpSpeechWatcher.seen_video_ids
    ts_file,          \* data/trump_speeches.json
    last,             \* what the latest step did (history, read by the properties)
    loaded_empty,     \* the seen set was empty when this process was constructed
    fetched_once,     \* a fetch of this process has returned
    repeat_after_seed, \* the latest poll fetched what the seeding poll before it fetched
    ai_startup_feed,  \* what the AI providers' feeds held when the bot was first started
    mr_pending,       \* MediaRequest.pending: the request ids, in insertion order
    mr_poll,          \* the running (or latest) poll_availability call
    mr_hist,          \* history: the request ids given out, the messages sent per id
    sl_items,         \* ShoppingList.items
    sl_file,          \* data/shopping_list.json
    sl_lock,          \* ShoppingList._lock: 0 when free, else the task that holds it
    sl_tasks,         \* the handlers of the shopping-list cog that are running
    bd_file,          \* data/birthdays.json
    bd_last_check_date, \* BirthdayReminder._last_check_date (<<>> for None)
    bd_task,          \* the daily_check loop task of the birthday cog
    bd_last           \* what the latest handler of the birthday cog did (history)

yt_vars == <<seen_video_ids, yt_file>>
pn_vars == <<seen_thread_ids>>
nin_vars == <<seen_ids>>
wow_vars == <<wow_seen_guids, wow_seen_links>>
rsi_vars == <<rsi_seen_guids>>
ai_vars == <<ai_seen, ai_file>>
ts_vars == <<ts_seen_video_ids, ts_file>>

media_vars == <<mr_pending, mr_poll, mr_hist>>

\* The cogs that poll a source, and the cogs that serve commands.
watcher_vars == <<cog, first_run, yt_vars, pn_vars, nin_vars, wow_vars,
                  rsi_vars, ai_vars, ts_vars, last,
                  loaded_empty, fetched_once, repeat_after_seed, ai_startup_feed>>
shop_vars == <<sl_items, sl_file, sl_lock, sl_tasks>>
bday_vars == <<bd_file, bd_last_check_date, bd_task, bd_last>>
command_vars == <<media_vars, shop_vars, bday_vars>>

vars == <<watcher_vars, command_vars>>

\* ----------------------------------------------------------------- helpers
\* The lists of at most n distinct elements of S.
SeqsUpTo(S, n) ==
    UNION {{f \in [1..k -> S] : \A i, j \in 1..k : f[i] = f[j] => i = j} : k \in 0..n}

Range(s) == {s[i] : i \in 1..Len(s)}

NoFile == [exists |-> FALSE, data |-> <<>>]

None == "<None>"    \* an element the feed item or the page does not have

\* ------------------------------------------------------- json (stdlib)
\* JSON values: a string, an array of values, an object (its members in order).
JsonStr(s) == [type |-> "str", v |-> s]

JsonArray(items) == [type |-> "array", v |-> items]

JsonObject(members) == [type |-> "object", v |-> members]

\* list[str] <-> a JSON array of strings
JsonArrayOfStrs(strs) == JsonArray([i \in 1..Len(strs) |-> JsonStr(strs[i])])

JsonStrs(array) == [i \in 1..Len(array.v) |-> array.v[i].v]

\* A JSON text is a sequence of tokens: the punctuation marks, a line feed, a
\* space, and for a string literal the quotation mark, the (escaped) characters
\* between the marks as one token, and the quotation mark.
JsonQuote == "quote"

JsonLit(s) == <<JsonQuote, s, JsonQuote>>

\* indent=2: a line feed and two spaces per level
JsonIndent(level) == <<"lf">> \o [i \in 1..(2 * level) |-> " "]

\* json.dump(o, f, indent=2): an empty container is "[]" or "{}"; the elements of
\* another are on lines of their own, separated by ",", a key and its value by ": ".
RECURSIVE json_dump(_, _)
RECURSIVE json_dump_items(_, _, _)
RECURSIVE json_dump_members(_, _, _)
json_dump(o, level) ==
    CASE o.type = "str" -> JsonLit(o.v)
      [] o.type = "array" ->
            IF o.v = <<>> THEN <<"[", "]">>
            ELSE <<"[">> \o json_dump_items(o.v, 1, level + 1)
                 \o JsonIndent(level) \o <<"]">>
      [] o.type = "object" ->
            IF o.v = <<>> THEN <<"{", "}">>
            ELSE <<"{">> \o json_dump_members(o.v, 1, level + 1)
                 \o JsonIndent(level) \o <<"}">>

json_dump_items(items, i, level) ==
    IF i > Len(items) THEN <<>>
    ELSE (IF i > 1 THEN <<",">> ELSE <<>>) \o JsonIndent(level)
         \o json_dump(items[i], level) \o json_dump_items(items, i + 1, level)

json_dump_members(members, i, level) ==
    IF i > Len(members) THEN <<>>
    ELSE (IF i > 1 THEN <<",">> ELSE <<>>) \o JsonIndent(level)
         \o JsonLit(members[i].k) \o <<":", " ">>
         \o json_dump(members[i].v, level) \o json_dump_members(members, i + 1, level)

\* json.load(f): the decoder.  JsonFail stands for json.JSONDecodeError.
JsonFail == [ok |-> FALSE, v |-> JsonStr(""), pos |-> 0]

JsonAt(text, i, c) == i <= Len(text) /\ text[i] = c

\* a string literal begins at position i
JsonLitAt(text, i) == JsonAt(text, i, JsonQuote) /\ JsonAt(text, i + 2, JsonQuote)

\* whitespace is skipped between tokens
RECURSIVE json_ws(_, _)
json_ws(text, i) ==
    IF JsonAt(text, i, "lf") \/ JsonAt(text, i, " ") THEN json_ws(text, i + 1) ELSE i

\* d[k] = v of the dict the decoder builds for an object: a name that comes
\* twice keeps its place and gets the later value.
json_setitem(members, k, v) ==
    IF \E i \in 1..Len(members) : members[i].k = k
    THEN [i \in 1..Len(members) |->
            IF members[i].k = k THEN [k |-> k, v |-> v] ELSE members[i]]
    ELSE Append(members, [k |-> k, v |-> v])

RECURSIVE json_value(_, _)
RECURSIVE json_elements(_, _, _)
RECURSIVE json_pairs(_, _, _)
\* the value that begins at or after position i, and the position after it
json_value(text, i) ==
    LET j == json_ws(text, i)
        e == json_ws(text, j + 1)
    IN  IF JsonLitAt(text, j)
        THEN [ok |-> TRUE, v |-> JsonStr(text[j + 1]), pos |-> j + 3]
        ELSE IF JsonAt(text, j, "[")
        THEN IF JsonAt(text, e, "]")
             THEN [ok |-> TRUE, v |-> JsonArray(<<>>), pos |-> e + 1]
             ELSE json_elements(text, j + 1, <<>>)
        ELSE IF JsonAt(text, j, "{")
        THEN IF JsonAt(text, e, "}")
             THEN [ok |-> TRUE, v |-> JsonObject(<<>>), pos |-> e + 1]
             ELSE json_pairs(text, j + 1, <<>>)
        ELSE JsonFail

\* the elements of an array from position i on: value ("," value)* "]"
json_elements(text, i, items) ==
    LET e == json_value(text, i)
        k == json_ws(text, e.pos)
    IN  IF ~e.ok THEN JsonFail
        ELSE IF JsonAt(text, k, ",") THEN json_elements(text, k + 1, Append(items, e.v))
        ELSE IF JsonAt(text, k, "]")
        THEN [ok |-> TRUE, v |-> JsonArray(Append(items, e.v)), pos |-> k + 1]
        ELSE JsonFail

\* the members of an object from position i on: string ":" value ("," ...)* "}"
json_pairs(text, i, members) ==
    LET j == json_ws(text, i)
        c == json_ws(text, j + 3)
        e == json_value(text, c + 1)
        k == json_ws(text, e.pos)
    IN  IF ~JsonLitAt(text, j) \/ ~JsonAt(text, c, ":") THEN JsonFail
        ELSE IF ~e.ok THEN JsonFail
        ELSE IF JsonAt(text, k, ",")
        THEN json_pairs(text, k + 1, json_setitem(members, text[j + 1], e.v))
        ELSE IF JsonAt(text, k, "}")
        THEN [ok |-> TRUE, v |-> JsonObject(json_setitem(members, text[j + 1], e.v)),
              pos |-> k + 1]
        ELSE JsonFail

\* the text is one value and nothing but whitespace after it
json_load(text) ==
    LET r == json_value(text, 1)
    IN  IF r.ok /\ json_ws(text, r.pos) = Len(text) + 1 THEN r ELSE JsonFail

\* dict.get(k, default) of a decoded object
json_get(object, k, default) ==
    IF \E i \in 1..Len(object.v) : object.v[i].k = k
    THEN object.v[CHOOSE i \in 1..Len(object.v) : object.v[i].k = k].v
    ELSE default

\* The data file of the cog that is followed (DATA_FILE), NoFile for a cog without.
DataFile ==
    CASE cog = "sc_youtube" -> yt_file
      [] cog = "ai_news" -> ai_file
      [] cog = "trump_speech" -> ts_file
      [] OTHER -> NoFile

\* Outcomes of one notification.  "ok": the message was sent.  "send_raised":
\* channel.send (or the role lookup before it) raised.  "llm_raised": the LLM or
\* content request raised.  "llm_no": the LLM declined the item.  "no_content":
\* there was nothing to summarise.  "cancelled": the loop task was cancelled while
\* the notification was suspended at an await (Admin.restart -> bot.close() ->
\* cog_unload -> <loop>.cancel()); asyncio.CancelledError is a BaseException, no
\* `except Exception` handler catches it, and it ends the iteration where it stands.
\* The outcomes after which a loop whose awaits are inside no try statement of
\* their own goes no further: an exception of channel.send, or the cancellation.
Leaves(out) == out \in {"send_raised", "cancelled"}

\* The loop task is not inside an iteration: it has not begun one yet, or sleeps.
LoopBetweenIterations == last.op \notin {"poll", "cancelled"}

NoPoll ==
    [op |-> "init", fetch_ok |-> FALSE, fetched |-> <<>>, first_fetch |-> FALSE,
     seeding |-> FALSE, channel_ok |-> FALSE, new |-> <<>>, attempts |-> <<>>,
     reached |-> 0, seen0 |-> {}, failed |-> {}, flag0 |-> FALSE, file0 |-> NoFile]

\* The record of a loop iteration whose fetch raised.  seen0, flag0 and file0 are
\* the seen state, the first-run flag and the data file when the iteration began.
FetchFailed(seen0) ==
    [NoPoll EXCEPT !.op = "poll", !.seen0 = seen0, !.flag0 = first_run,
                   !.file0 = DataFile]

\* The latest notification the loop began was cancelled while it was suspended.
Cancelled(attempts) ==
    attempts # <<>> /\ attempts[Len(attempts)].out = "cancelled"

\* The record of a loop iteration whose fetch returned `fetched`: of one that has
\* returned (op = "poll"), or of one that was cancelled in a notification.  The
\* watchers with several fetches (AI news, Trump speeches) set `failed` to the
\* fetches that raised, and fetch_ok to whether any fetch returned.
PollRec(fetched, seeding, channel_ok, new, attempts, reached, seen0) ==
    [op |-> IF Cancelled(attempts) THEN "cancelled" ELSE "poll", fetch_ok |-> TRUE, fetched |-> fetched,
     first_fetch |-> ~fetched_once,
     seeding |-> seeding, channel_ok |-> channel_ok, new |-> new,
     attempts |-> attempts, reached |-> reached, seen0 |-> seen0, failed |-> {},
     flag0 |-> first_run, file0 |-> DataFile]

\* The history variables after a loop iteration.
Ghosts ==
    /\ fetched_once' = (fetched_once \/ last'.fetch_ok)
    /\ repeat_after_seed' =
          (last'.fetch_ok /\ last.op = "idle" /\ last.seeding
             /\ last'.fetched = last.fetched)
    /\ UNCHANGED <<cog, loaded_empty, ai_startup_feed, command_vars>>

\* The accumulator of a notification loop: the seen state, the notifications
\* attempted, how many new items the loop reached, and whether it ran to its end.
LoopStart(seen) ==
    [seen |-> seen, attempts |-> <<>>, reached |-> 0, completed |-> FALSE]

Attempt(acc, i, item, out) ==
    [acc EXCEPT !.attempts = Append(@, [item |-> item, out |-> out]), !.reached = i]

\* ------------------------------------------------------- sc_youtube.py
YtIds == <<"v1", "v2">>     \* video ids, in sorted() order

YtVideos ==
    {[video_id |-> "v1", title |-> "Inside Star Citizen"],
     [video_id |-> "v1", title |-> "Inside Star Citizen (4K)"],
     [video_id |-> "v2", title |-> "Star Citizen Live"]}

\* sorted(seen): the ids of `seen` in the order of YtIds.
RECURSIVE SortedIds(_, _, _)
SortedIds(order, seen, i) ==
    IF i > Len(order) THEN <<>>
    ELSE (IF order[i] \in seen THEN <<order[i]>> ELSE <<>>) \o SortedIds(order, seen, i + 1)

\* _save_seen_ids: json.dump({"seen_video_ids": sorted(seen)}, f, indent=2)
yt_save_seen_ids(seen) ==
    [exists |-> TRUE,
     data |-> json_dump(JsonObject(<<[k |-> "seen_video_ids",
                                      v |-> JsonArrayOfStrs(SortedIds(YtIds, seen, 1))]>>),
                        0)]

\* A load that keeps the first id of the array only.
yt_load_first_id(file) ==
    IF ~file.exists THEN {}
    ELSE LET data == json_load(file.data)
             ids == JsonStrs(json_get(data.v, "seen_video_ids", JsonArray(<<>>)))
         IN  IF ~data.ok \/ ids = <<>> THEN {} ELSE {ids[1]}

\* _load_seen_ids: set() when the file is missing or json.load raises
\* JSONDecodeError, else set(data.get("seen_video_ids", [])).  (The text the
\* file holds is one _save_seen_ids wrote: an object whose arrays hold strings.)
yt_load_seen_ids(file) ==
    IF ~file.exists THEN {}
    ELSE LET data == json_load(file.data)
         IN  IF ~data.ok THEN {}
             ELSE Range(JsonStrs(json_get(data.v, "seen_video_ids", JsonArray(<<>>))))

\* SCYouTubeWatcher.__init__
SCYouTubeWatcher_init(file) ==
    LET loaded == yt_load_seen_ids(file)
    IN  [seen_video_ids |-> loaded, first_run |-> (loaded = {})]

\* What _post_video can do: channel.send raises, the message is sent, or the task
\* is cancelled in the await.
YtOutcomes == {"ok", "send_raised", "cancelled"}

\* A loop that records the video id before it posts.
RECURSIVE yt_post_loop_mark_first(_, _, _, _)
yt_post_loop_mark_first(new_videos, outs, i, acc) ==
    IF i > Len(new_videos) THEN [acc EXCEPT !.completed = TRUE]
    ELSE LET video == new_videos[i]
             tried == [Attempt(acc, i, video, outs[i]) EXCEPT
                          !.seen = @ \cup {video.video_id}]
         IN  IF Leaves(outs[i])
             THEN tried
             ELSE yt_post_loop_mark_first(new_videos, outs, i + 1, tried)

\* for video in new_videos: await self._post_video(...); self.seen_video_ids.add(...)
\* An exception of _post_video leaves the loop: the handler is the one of the whole
\* body (line 88).
RECURSIVE yt_post_loop(_, _, _, _)
yt_post_loop(new_videos, outs, i, acc) ==
    IF i > Len(new_videos) THEN [acc EXCEPT !.completed = TRUE]
    ELSE LET video == new_videos[i]
             tried == Attempt(acc, i, video, outs[i])
         IN  IF Leaves(outs[i])
             THEN tried
             ELSE yt_post_loop(new_videos, outs, i + 1,
                               [tried EXCEPT !.seen = @ \cup {video.video_id}])

\* A diff that takes every fetched video as new.
yt_all_videos(videos, seen) == videos

yt_new_videos(videos, seen) ==
    SelectSeq(videos, LAMBDA v : v.video_id \notin seen)

\* SCYouTubeWatcher.check_videos
check_videos ==
    /\ cog = "sc_youtube"
    /\ LoopBetweenIterations
    /\ UNCHANGED <<pn_vars, nin_vars, wow_vars, rsi_vars, ai_vars, ts_vars>>
    /\ \/ \* _fetch_videos raised
          /\ UNCHANGED <<first_run, yt_vars>>
          /\ last' = FetchFailed(seen_video_ids)
       \/ \E videos \in SeqsUpTo(YtVideos, MaxFetch) :
            LET new_videos == yt_new_videos(videos, seen_video_ids)
                rec(seeding, channel_ok, new, attempts, reached) ==
                    PollRec(videos, seeding, channel_ok, new, attempts, reached,
                            seen_video_ids)
            IN
            IF videos = <<>>
            THEN /\ first_run' = FALSE
                 /\ UNCHANGED yt_vars
                 /\ last' = rec(first_run, FALSE, <<>>, <<>>, 0)
            ELSE IF first_run
            THEN /\ seen_video_ids' =
                        seen_video_ids \cup {v.video_id : v \in Range(videos)}
                 /\ yt_file' = yt_save_seen_ids(seen_video_ids')
                 /\ first_run' = FALSE
                 /\ last' = rec(TRUE, FALSE, <<>>, <<>>, 0)
            ELSE IF new_videos = <<>>
            THEN /\ UNCHANGED <<first_run, yt_vars>>
                 /\ last' = rec(FALSE, FALSE, <<>>, <<>>, 0)
            ELSE \/ \* bot.get_channel returned None
                    /\ UNCHANGED <<first_run, yt_vars>>
                    /\ last' = rec(FALSE, FALSE, new_videos, <<>>, 0)
                 \/ \E outs \in [1..Len(new_videos) -> YtOutcomes] :
                      LET loop == yt_post_loop(new_videos, outs, 1,
                                               LoopStart(seen_video_ids))
                      IN  /\ seen_video_ids' = loop.seen
                          /\ yt_file' = IF loop.completed
                                        THEN yt_save_seen_ids(loop.seen) ELSE yt_file
                          /\ UNCHANGED first_run
                          /\ last' = rec(FALSE, TRUE, new_videos, loop.attempts,
                                         loop.reached)
    /\ Ghosts

\* ------------------------------------------------------- patch_notes.py
\* The threads spectrum.get_threads returns.
PnThreads ==
    {[id |-> "t1", subject |-> "Star Citizen Alpha 4.1 PTU Patch Notes"],
     [id |-> "t1", subject |-> "Star Citizen Alpha 4.1 PTU Patch Notes (Updated)"],
     [id |-> "t2", subject |-> "Star Citizen Alpha 4.1.1 PTU Patch Notes"]}

\* What _post_summary can do: the content or the LLM request raises (caught inside
\* _post_summary, lines 96-98), the content is empty (line 87), channel.send raises
\* (not caught inside), the message is sent, or the task is cancelled in one of
\* the awaits.
PnOutcomes == {"ok", "send_raised", "llm_raised", "no_content", "cancelled"}

\* A loop that records the thread id after _post_summary has returned.
RECURSIVE pn_post_loop_mark_after(_, _, _, _)
pn_post_loop_mark_after(new_threads, outs, i, acc) ==
    IF i > Len(new_threads) THEN [acc EXCEPT !.completed = TRUE]
    ELSE LET thread == new_threads[i]
             tried == Attempt(acc, i, thread, outs[i])
         IN  IF Leaves(outs[i])
             THEN tried
             ELSE pn_post_loop_mark_after(new_threads, outs, i + 1,
                                          [tried EXCEPT !.seen = @ \cup {thread.id}])

\* for thread in new_threads: self.seen_thread_ids.add(...); await self._post_summary(...)
RECURSIVE pn_post_loop(_, _, _, _)
pn_post_loop(new_threads, outs, i, acc) ==
    IF i > Len(new_threads) THEN [acc EXCEPT !.completed = TRUE]
    ELSE LET thread == new_threads[i]
             tried == [Attempt(acc, i, thread, outs[i]) EXCEPT
                          !.seen = @ \cup {thread.id}]
         IN  IF Leaves(outs[i])
             THEN tried
             ELSE pn_post_loop(new_threads, outs, i + 1, tried)

\* PatchNotes.check_patch_notes
check_patch_notes ==
    /\ cog = "patch_notes"
    /\ LoopBetweenIterations
    /\ UNCHANGED <<yt_vars, nin_vars, wow_vars, rsi_vars, ai_vars, ts_vars>>
    /\ \/ \* spectrum.get_threads raised
          /\ UNCHANGED <<first_run, pn_vars>>
          /\ last' = FetchFailed(seen_thread_ids)
       \/ \E threads \in SeqsUpTo(PnThreads, MaxFetch) :
            LET new_threads == SelectSeq(threads, LAMBDA t : t.id \notin seen_thread_ids)
                rec(seeding, channel_ok, new, attempts, reached) ==
                    PollRec(threads, seeding, channel_ok, new, attempts, reached,
                            seen_thread_ids)
            IN
            IF threads = <<>>
            THEN /\ UNCHANGED <<first_run, pn_vars>>
                 /\ last' = rec(FALSE, FALSE, <<>>, <<>>, 0)
            ELSE IF first_run
            THEN /\ seen_thread_ids' = {t.id : t \in Range(threads)}
                 /\ first_run' = FALSE
                 /\ last' = rec(TRUE, FALSE, <<>>, <<>>, 0)
            ELSE IF new_threads = <<>>
            THEN /\ UNCHANGED <<first_run, pn_vars>>
                 /\ last' = rec(FALSE, FALSE, <<>>, <<>>, 0)
            ELSE \/ \* bot.get_channel returned None
                    /\ UNCHANGED <<first_run, pn_vars>>
                    /\ last' = rec(FALSE, FALSE, new_threads, <<>>, 0)
                 \/ \E outs \in [1..Len(new_threads) -> PnOutcomes] :
                      LET loop == pn_post_loop(new_threads, outs, 1,
                                               LoopStart(seen_thread_ids))
                      IN  /\ seen_thread_ids' = loop.seen
                          /\ UNCHANGED first_run
                          /\ last' = rec(FALSE, TRUE, new_threads, loop.attempts,
                                         loop.reached)
    /\ Ghosts

\* --------------------------------------------------- nintendo_watcher.py
SCORE_THRESHOLD == 500

\* The posts of the Reddit listing (p["data"] of each child).
NinPosts ==
    {[id |-> "p1", title |-> "Nintendo Direct 9.12.2025", score |-> 900],
     [id |-> "p1", title |-> "NINTENDO DIRECT 9.12.2025 - Megathread", score |-> 2400],
     [id |-> "p2", title |-> "Nintendo Direct tomorrow", score |-> 120],
     [id |-> "p2", title |-> "Nintendo Direct tomorrow", score |-> 640],
     [id |-> "p3", title |-> "My Zelda shelf", score |-> 5000]}

\* "nintendo direct" in title.lower(), for the titles of NinPosts
nin_title_matches(title) ==
    title \in {"Nintendo Direct 9.12.2025", "NINTENDO DIRECT 9.12.2025 - Megathread",
               "Nintendo Direct tomorrow"}

\* matching = [p["data"] for p in posts if "nintendo direct" in title and score >= 500]
nin_matching(posts) ==
    SelectSeq(posts, LAMBDA p : nin_title_matches(p.title) /\ p.score >= SCORE_THRESHOLD)

\* What _verify_and_alert can do: the LLM request raises (caught inside, lines
\* 114-116), the LLM does not answer YES, channel.send raises (not caught inside),
\* the alert is sent, or the task is cancelled in one of the awaits.
NinOutcomes == {"ok", "send_raised", "llm_raised", "llm_no", "cancelled"}

\* for post in new_posts: self.seen_ids.add(post["id"]); await self._verify_and_alert(...)
RECURSIVE nin_alert_loop(_, _, _, _)
nin_alert_loop(new_posts, outs, i, acc) ==
    IF i > Len(new_posts) THEN [acc EXCEPT !.completed = TRUE]
    ELSE LET post == new_posts[i]
             tried == [Attempt(acc, i, post, outs[i]) EXCEPT !.seen = @ \cup {post.id}]
         IN  IF Leaves(outs[i])
             THEN tried
             ELSE nin_alert_loop(new_posts, outs, i + 1, tried)

\* NintendoWatcher.check_nintendo_direct
check_nintendo_direct ==
    /\ cog = "nintendo_watcher"
    /\ LoopBetweenIterations
    /\ UNCHANGED <<yt_vars, pn_vars, wow_vars, rsi_vars, ai_vars, ts_vars>>
    /\ \/ \* the request or resp.json() raised
          /\ UNCHANGED <<first_run, nin_vars>>
          /\ last' = FetchFailed(seen_ids)
       \/ \E posts \in SeqsUpTo(NinPosts, MaxFetch) :
            LET matching == nin_matching(posts)
                new_posts == SelectSeq(matching, LAMBDA p : p.id \notin seen_ids)
                rec(seeding, channel_ok, new, attempts, reached) ==
                    PollRec(posts, seeding, channel_ok, new, attempts, reached, seen_ids)
            IN
            IF matching = <<>>
            THEN /\ first_run' = FALSE
                 /\ UNCHANGED nin_vars
                 /\ last' = rec(first_run, FALSE, <<>>, <<>>, 0)
            ELSE IF first_run
            THEN /\ seen_ids' = {p.id : p \in Range(matching)}
                 /\ first_run' = FALSE
                 /\ last' = rec(TRUE, FALSE, <<>>, <<>>, 0)
            ELSE IF new_posts = <<>>
            THEN /\ UNCHANGED <<first_run, nin_vars>>
                 /\ last' = rec(FALSE, FALSE, <<>>, <<>>, 0)
            ELSE \/ \* bot.get_channel returned None
                    /\ UNCHANGED <<first_run, nin_vars>>
                    /\ last' = rec(FALSE, FALSE, new_posts, <<>>, 0)
                 \/ \E outs \in [1..Len(new_posts) -> NinOutcomes] :
                      LET loop == nin_alert_loop(new_posts, outs, 1, LoopStart(seen_ids))
                      IN  /\ seen_ids' = loop.seen
                          /\ UNCHANGED first_run
                          /\ last' = rec(FALSE, TRUE, new_posts, loop.attempts,
                                         loop.reached)
    /\ Ghosts

\* ---------------------------------------------------- minecraft_news.py
\* The module's functions are defined when the extension is imported; load_cogs
\* never gets a MinecraftNews object (see MinecraftNews_init), so nothing in the
\* process calls them.
McUrls == {"u1", "u2"}     \* article urls

\* _save_seen: json.dump(seen, f, indent=2), a JSON array of strings
mc_save_seen(seen) == [exists |-> TRUE, data |-> json_dump(JsonArrayOfStrs(seen), 0)]

\* _load_seen: [] when the file is missing or json.load raises JSONDecodeError,
\* else the decoded list
mc_load_seen(file) ==
    IF ~file.exists THEN <<>>
    ELSE LET data == json_load(file.data)
         IN  IF ~data.ok THEN <<>> ELSE JsonStrs(data.v)

\* --------------------------------------------------- wow_patch_notes.py
\* The <item> elements of the Wowhead feed.
WowEntries ==
    {[title |-> "Hotfixes: May 5", link |-> "l1", guid |-> "g1"],
     [title |-> "Hotfixes: May 5 (Updated)", link |-> "l1", guid |-> "g2"],
     [title |-> "Patch 11.1.5 Content Update Notes", link |-> "l2", guid |-> "g1"],
     [title |-> "Patch 11.1.5 Content Update Notes", link |-> "l2", guid |-> None],
     [title |-> "Weekly Bonus Event: Timewalking", link |-> "l3", guid |-> "g3"]}

\* _is_patch_article: any(kw in title.lower() for kw in PATCH_KEYWORDS), for the
\* titles of WowEntries ("hotfix" is in the first two, "content update notes" and
\* "update notes" in the third, none in the last)
wow_is_patch_article(title) ==
    title \in {"Hotfixes: May 5", "Hotfixes: May 5 (Updated)",
               "Patch 11.1.5 Content Update Notes"}

\* _parse_rss: the patch articles of the feed; guid = item.findtext("guid", link)
wow_parse_item(e) ==
    [title |-> e.title, link |-> e.link,
     guid |-> IF e.guid = None THEN e.link ELSE e.guid]

RECURSIVE wow_parse_rss(_, _)
wow_parse_rss(entries, i) ==
    IF i > Len(entries) THEN <<>>
    ELSE (IF wow_is_patch_article(entries[i].title)
          THEN <<wow_parse_item(entries[i])>> ELSE <<>>)
         \o wow_parse_rss(entries, i + 1)

\* What _post_summary can do: nothing to summarise (returns False), the LLM request
\* raises (caught inside, returns False), channel.send raises (not caught inside),
\* the message is sent (returns True), or the task is cancelled in one of the awaits.
WowOutcomes == {"ok", "send_raised", "llm_raised", "no_content", "cancelled"}

\* A diff that takes an item as new when its guid or its link is unseen.
wow_is_new_either(item, seen) ==
    item.guid \notin seen.guids \/ item.link \notin seen.links

\* item["guid"] not in self.seen_guids and item["link"] not in self.seen_links
wow_is_new(item, seen) == item.guid \notin seen.guids /\ item.link \notin seen.links

\* for item in new_items: success = await self._post_summary(...)
\*                        if success: add the guid and the link
RECURSIVE wow_post_loop(_, _, _, _)
wow_post_loop(new_items, outs, i, acc) ==
    IF i > Len(new_items) THEN [acc EXCEPT !.completed = TRUE]
    ELSE LET item == new_items[i]
             tried == Attempt(acc, i, item, outs[i])
         IN  IF Leaves(outs[i])
             THEN tried
             ELSE wow_post_loop(new_items, outs, i + 1,
                     IF outs[i] = "ok"
                     THEN [tried EXCEPT !.seen.guids = @ \cup {item.guid},
                                        !.seen.links = @ \cup {item.link}]
                     ELSE tried)

\* WoWPatchNotes.check_wow_patches
check_wow_patches ==
    /\ cog = "wow_patch_notes"
    /\ LoopBetweenIterations
    /\ UNCHANGED <<yt_vars, pn_vars, nin_vars, rsi_vars, ai_vars, ts_vars>>
    /\ LET seen == [guids |-> wow_seen_guids, links |-> wow_seen_links] IN
       \/ \* the request raised, or the feed is not XML
          /\ UNCHANGED <<first_run, wow_vars>>
          /\ last' = FetchFailed(seen)
       \/ \E entries \in SeqsUpTo(WowEntries, MaxFetch) :
            LET items == wow_parse_rss(entries, 1)
                new_items == SelectSeq(items, LAMBDA it : wow_is_new(it, seen))
                rec(seeding, channel_ok, new, attempts, reached) ==
                    PollRec(entries, seeding, channel_ok, new, attempts, reached, seen)
            IN
            IF items = <<>>
            THEN /\ UNCHANGED <<first_run, wow_vars>>
                 /\ last' = rec(FALSE, FALSE, <<>>, <<>>, 0)
            ELSE IF first_run
            THEN /\ wow_seen_guids' = {it.guid : it \in Range(items)}
                 /\ wow_seen_links' = {it.link : it \in Range(items)}
                 /\ first_run' = FALSE
                 /\ last' = rec(TRUE, FALSE, <<>>, <<>>, 0)
            ELSE IF new_items = <<>>
            THEN /\ UNCHANGED <<first_run, wow_vars>>
                 /\ last' = rec(FALSE, FALSE, <<>>, <<>>, 0)
            ELSE \/ \* bot.get_channel returned None
                    /\ UNCHANGED <<first_run, wow_vars>>
                    /\ last' = rec(FALSE, FALSE, new_items, <<>>, 0)
                 \/ \E outs \in [1..Len(new_items) -> WowOutcomes] :
                      LET loop == wow_post_loop(new_items, outs, 1, LoopStart(seen))
                      IN  /\ wow_seen_guids' = loop.seen.guids
                          /\ wow_seen_links' = loop.seen.links
                          /\ UNCHANGED first_run
                          /\ last' = rec(FALSE, TRUE, new_items, loop.attempts,
                                         loop.reached)
    /\ Ghosts

\* -------------------------------------------------------- rsi_status.py
\* The <item> elements of the status feed.
RsiEntries ==
    {[guid |-> "g1", title |-> "[Investigating] Login issues"],
     [guid |-> "g1", title |-> "[Resolved] Login issues"],
     [guid |-> "g2", title |-> "[Investigating] Login issues"],
     [guid |-> None, title |-> "[Scheduled] Maintenance"],
     [guid |-> None, title |-> "[Resolved] Launcher errors"]}

\* _parse_rss: every item of the feed; guid = item.findtext("guid", "")
rsi_parse_item(e) ==
    [guid |-> IF e.guid = None THEN "" ELSE e.guid, title |-> e.title]

rsi_parse_rss(entries) == [i \in 1..Len(entries) |-> rsi_parse_item(entries[i])]

\* {item["guid"]: item["title"] for item in items}: the last item of a guid wins
rsi_seed(items) ==
    [g \in {items[i].guid : i \in 1..Len(items)} |->
        LET n == CHOOSE i \in 1..Len(items) :
                    /\ items[i].guid = g
                    /\ \A j \in (i + 1)..Len(items) : items[j].guid # g
        IN  items[n].title]

\* self.seen_guids.get(guid)
rsi_get(seen, guid) == IF guid \in DOMAIN seen THEN seen[guid] ELSE None

\* self.seen_guids[guid] = title
rsi_set(seen, guid, title) ==
    [g \in DOMAIN seen \cup {guid} |-> IF g = guid THEN title ELSE seen[g]]

\* What _post_update can do: channel.send raises, the message is sent, or the task
\* is cancelled in the await.
RsiOutcomes == {"ok", "send_raised", "cancelled"}

\* for item in items: a new guid or a changed title is recorded, then posted.
\* An exception of _post_update leaves the loop (handler of the whole body, line 111).
RECURSIVE rsi_update_loop(_, _, _, _)
rsi_update_loop(items, outs, i, acc) ==
    IF i > Len(items) THEN [acc EXCEPT !.completed = TRUE]
    ELSE LET item == items[i]
             prev_title == rsi_get(acc.seen, item.guid)
         IN  IF prev_title = None \/ prev_title # item.title
             THEN LET tried == [acc EXCEPT
                                  !.seen = rsi_set(@, item.guid, item.title),
                                  !.attempts = Append(@, [item |-> item, out |-> outs[i],
                                                          idx |-> i]),
                                  !.reached = i]
                  IN  IF Leaves(outs[i])
                      THEN tried
                      ELSE rsi_update_loop(items, outs, i + 1, tried)
             ELSE rsi_update_loop(items, outs, i + 1, [acc EXCEPT !.reached = i])

\* RSIStatus.check_status
check_status ==
    /\ cog = "rsi_status"
    /\ LoopBetweenIterations
    /\ UNCHANGED <<yt_vars, pn_vars, nin_vars, wow_vars, ai_vars, ts_vars>>
    /\ \/ \* the request raised, or the feed is not XML
          /\ UNCHANGED <<first_run, rsi_vars>>
          /\ last' = FetchFailed(rsi_seen_guids)
       \/ \E entries \in SeqsUpTo(RsiEntries, MaxFetch) :
            LET items == rsi_parse_rss(entries)
                rec(seeding, channel_ok, new, attempts, reached) ==
                    PollRec(items, seeding, channel_ok, new, attempts, reached,
                            rsi_seen_guids)
            IN
            IF items = <<>>
            THEN /\ UNCHANGED <<first_run, rsi_vars>>
                 /\ last' = rec(FALSE, FALSE, <<>>, <<>>, 0)
            ELSE IF first_run
            THEN /\ rsi_seen_guids' = rsi_seed(items)
                 /\ first_run' = FALSE
                 /\ last' = rec(TRUE, FALSE, <<>>, <<>>, 0)
            ELSE \/ \* bot.get_channel returned None
                    /\ UNCHANGED <<first_run, rsi_vars>>
                    /\ last' = rec(FALSE, FALSE, items, <<>>, 0)
                 \/ \E outs \in [1..Len(items) -> RsiOutcomes] :
                      LET loop == rsi_update_loop(items, outs, 1,
                                                  LoopStart(rsi_seen_guids))
                      IN  /\ rsi_seen_guids' = loop.seen
                          /\ UNCHANGED first_run
                          /\ last' = rec(FALSE, TRUE, items, loop.attempts, loop.reached)
    /\ Ghosts

\* ----------------------------------------------------------- ai_news.py
providers == <<"openai", "google", "anthropic", "microsoft">>

\* The articles a provider's page or feed can hold.  The same url under two
\* providers is two keys: self.seen is kept per provider.
AiFeed(provider) ==
    CASE provider = "openai" ->
            {[url |-> "x1", title |-> "Introducing GPT-5"],
             [url |-> "x1", title |-> "Introducing GPT-5 (updated)"],
             [url |-> "x2", title |-> "Our approach to safety"]}
      [] provider = "google" -> {[url |-> "x1", title |-> "Gemini 3 is here"]}
      [] provider = "anthropic" -> {[url |-> "x1", title |-> "Claude can now use tools"]}
      [] provider = "microsoft" -> {}     \* the feed lists nothing in the model

NoDuplicateUrl(articles) ==
    \A i, j \in 1..Len(articles) : articles[i].url = articles[j].url => i = j

\* What one _check_<provider> coroutine can give asyncio.gather: an exception, or
\* the parsed list.  _parse_rss and _parse_atom keep every item that has a link;
\* _parse_anthropic_news keeps one article per url (seen_urls).
\* Where the environment publishes nothing after the start (ai_startup_feed.static)
\* a fetch that returns gives what the feed held at the start.
AiParsed(provider) ==
    {b \in SeqsUpTo(AiFeed(provider), MaxFetch) :
        provider = "anthropic" => NoDuplicateUrl(b)}

AiResultsOf(provider) ==
    {[ok |-> FALSE, items |-> <<>>]} \cup
    {[ok |-> TRUE, items |-> a] :
        a \in IF ai_startup_feed.static THEN {ai_startup_feed.items[provider]}
              ELSE AiParsed(provider)}

\* self.seen is a dict: the sequence of its items [k |-> provider, v |-> urls]
\* in insertion order, the order in which json.dump writes them.
\* _save_seen: json.dump(seen, f, indent=2), a JSON object of arrays of strings
ai_save_seen(seen) ==
    [exists |-> TRUE,
     data |-> json_dump(JsonObject([i \in 1..Len(seen) |->
                                      [k |-> seen[i].k, v |-> JsonArrayOfStrs(seen[i].v)]]),
                        0)]

\* _load_seen: {} when the file is missing or json.load raises JSONDecodeError,
\* else the decoded dict.  (The text the file holds is one _save_seen wrote.)
ai_load_seen(file) ==
    IF ~file.exists THEN <<>>
    ELSE LET data == json_load(file.data)
         IN  IF ~data.ok THEN <<>>
             ELSE [i \in 1..Len(data.v.v) |->
                     [k |-> data.v.v[i].k, v |-> JsonStrs(data.v.v[i].v)]]

\* A construction that never asks for a seeding pass.
AINews_init_no_seed(file) == [seen |-> ai_load_seen(file), first_run |-> FALSE]

\* AINews.__init__
AINews_init(file) ==
    LET loaded == ai_load_seen(file)
    IN  [seen |-> loaded, first_run |-> (loaded = <<>>)]

\* provider in self.seen
ai_has(seen, provider) == \E i \in 1..Len(seen) : seen[i].k = provider

\* self.seen.get(provider, [])
ai_get(seen, provider) ==
    IF ai_has(seen, provider)
    THEN seen[CHOOSE i \in 1..Len(seen) : seen[i].k = provider].v
    ELSE <<>>

\* self.seen[provider] = [url]: the list of the provider is replaced.
ai_assign(seen, provider, url) ==
    IF ai_has(seen, provider)
    THEN [i \in 1..Len(seen) |->
            IF seen[i].k = provider THEN [k |-> provider, v |-> <<url>>] ELSE seen[i]]
    ELSE Append(seen, [k |-> provider, v |-> <<url>>])

\* self.seen.setdefault(provider, []).append(url)
ai_setdefault_append(seen, provider, url) ==
    IF ai_has(seen, provider)
    THEN [i \in 1..Len(seen) |->
            IF seen[i].k = provider THEN [seen[i] EXCEPT !.v = Append(@, url)]
            ELSE seen[i]]
    ELSE Append(seen, [k |-> provider, v |-> <<url>>])

\* A diff that gives up when the fetch of any provider raised.
RECURSIVE ai_all_new_abort(_, _, _)
ai_all_new_abort(results, seen, k) ==
    IF k > Len(providers) \/ \E q \in DOMAIN results : ~results[q].ok THEN <<>>
    ELSE LET provider == providers[k]
             result == results[provider]
             articles == [i \in 1..Len(result.items) |->
                            [provider |-> provider, url |-> result.items[i].url,
                             title |-> result.items[i].title]]
         IN  SelectSeq(articles, LAMBDA a : a.url \notin Range(ai_get(seen, provider)))
             \o ai_all_new_abort(results, seen, k + 1)

\* for provider, result in zip(providers, results): an exception is logged and
\* skipped; the articles whose url is not in self.seen.get(provider, []) are new.
RECURSIVE ai_all_new(_, _, _)
ai_all_new(results, seen, k) ==
    IF k > Len(providers) THEN <<>>
    ELSE LET provider == providers[k]
             result == results[provider]
             articles == [i \in 1..Len(result.items) |->
                            [provider |-> provider, url |-> result.items[i].url,
                             title |-> result.items[i].title]]
         IN  (IF ~result.ok THEN <<>>
              ELSE SelectSeq(articles,
                             LAMBDA a : a.url \notin Range(ai_get(seen, provider))))
             \o ai_all_new(results, seen, k + 1)

\* for provider, article in all_new: self.seen.setdefault(provider, []).append(url)
RECURSIVE ai_seed(_, _, _)
ai_seed(all_new, i, seen) ==
    IF i > Len(all_new) THEN seen
    ELSE ai_seed(all_new, i + 1,
                 ai_setdefault_append(seen, all_new[i].provider, all_new[i].url))

\* What the body of the try can do: the filter answers NO (nothing is posted),
\* _post_article raises, the message is sent, or the task is cancelled in one of
\* the two awaits.  (An exception of _filter_article reaches the same handler as
\* one of _post_article.)
AiOutcomes == {"ok", "llm_no", "send_raised", "cancelled"}

\* for provider, article in all_new: try: filter, post  except Exception: log
\*                                    self.seen.setdefault(provider, []).append(url)
\* A cancellation (in _filter_article or in _post_article) passes the handler of
\* line 204: the url is not appended, the loop goes no further and line 211
\* (_save_seen) is not reached.
RECURSIVE ai_post_loop(_, _, _, _)
ai_post_loop(all_new, outs, i, acc) ==
    IF i > Len(all_new) THEN [acc EXCEPT !.completed = TRUE]
    ELSE LET article == all_new[i]
             tried == Attempt(acc, i, article, outs[i])
         IN  IF outs[i] = "cancelled"
             THEN tried
             ELSE ai_post_loop(all_new, outs, i + 1,
                      [tried EXCEPT
                          !.seen = ai_setdefault_append(@, article.provider,
                                                        article.url)])

\* A return without the channel that records the new articles as seen.
ai_no_channel_marks(seen, all_new) == ai_seed(all_new, 1, seen)

\* if not channel: log.warning(...); return   (self.seen is not touched)
ai_no_channel(seen, all_new) == seen

\* The articles the providers that did not raise returned, in the order of `providers`.
RECURSIVE ai_returned(_, _)
ai_returned(results, k) ==
    IF k > Len(providers) THEN <<>>
    ELSE LET result == results[providers[k]]
         IN  (IF result.ok
              THEN [i \in 1..Len(result.items) |->
                      [provider |-> providers[k], url |-> result.items[i].url,
                       title |-> result.items[i].title]]
              ELSE <<>>)
             \o ai_returned(results, k + 1)

ai_fetched(results) == ai_returned(results, 1)

\* AINews.check_ai_news
check_ai_news ==
    /\ cog = "ai_news"
    /\ LoopBetweenIterations
    /\ UNCHANGED <<yt_vars, pn_vars, nin_vars, wow_vars, rsi_vars, ts_vars>>
    /\ \E r1 \in AiResultsOf("openai"), r2 \in AiResultsOf("google"),
          r3 \in AiResultsOf("anthropic"), r4 \in AiResultsOf("microsoft") :
         LET results == [q \in Range(providers) |->
                            CASE q = "openai" -> r1 [] q = "google" -> r2
                              [] q = "anthropic" -> r3 [] q = "microsoft" -> r4]
             all_new == ai_all_new(results, ai_seen, 1)
             rec(seeding, channel_ok, new, attempts, reached) ==
                 [PollRec(ai_fetched(results), seeding, channel_ok, new, attempts,
                          reached, ai_seen)
                    EXCEPT !.failed = {q \in Range(providers) : ~results[q].ok},
                           !.fetch_ok = \E q \in Range(providers) : results[q].ok]
         IN
         /\ Len(r1.items) + Len(r2.items) + Len(r3.items) + Len(r4.items) <= MaxFetch
         /\ IF first_run
            THEN /\ ai_seen' = ai_seed(all_new, 1, ai_seen)
                 /\ ai_file' = ai_save_seen(ai_seen')
                 /\ first_run' = FALSE
                 /\ last' = rec(TRUE, FALSE, <<>>, <<>>, 0)
            ELSE IF all_new = <<>>
            THEN /\ UNCHANGED <<first_run, ai_vars>>
                 /\ last' = rec(FALSE, FALSE, <<>>, <<>>, 0)
            ELSE \/ \* bot.get_channel returned None
                    /\ ai_seen' = ai_no_channel(ai_seen, all_new)
                    /\ UNCHANGED <<first_run, ai_file>>
                    /\ last' = rec(FALSE, FALSE, all_new, <<>>, 0)
                 \/ \E outs \in [1..Len(all_new) -> AiOutcomes] :
                      LET loop == ai_post_loop(all_new, outs, 1, LoopStart(ai_seen))
                      IN  /\ ai_seen' = loop.seen
                          /\ ai_file' = IF loop.completed
                                        THEN ai_save_seen(loop.seen) ELSE ai_file
                          /\ UNCHANGED first_run
                          /\ last' = rec(FALSE, TRUE, all_new, loop.attempts,
                                         loop.reached)
    /\ Ghosts

\* ------------------------------------------------------ trump_speech.py
YOUTUBE_CHANNELS == <<"White House", "C-SPAN", "Fox News">>

MIN_DURATION_SECONDS == 600

MIN_CAPTIONS == 500     \* len(captions) < 500

TITLE_KEYWORDS == <<"trump", "president trump", "potus">>

SPEECH_KEYWORDS ==
    <<"speech", "speaks", "address", "remarks", "delivers", "rally", "press conference",
      "news conference", "briefing", "announcement", "statement", "signing",
      "oval office", "state of the union", "town hall">>

\* The entries a channel's feed can hold (what _fetch_channel_videos returns).
TsFeed(channel) ==
    CASE channel = "White House" ->
            {[video_id |-> "a", title |-> "President Trump Delivers Remarks on Tariffs",
              published |-> "2025-05-01T18:00:00+00:00"]}
      [] channel = "C-SPAN" ->
            {[video_id |-> "b", title |-> "Trump Remarks on Tariffs",
              published |-> "2025-05-01T18:05:00+00:00"],
             [video_id |-> "d", title |-> "Senate Hearing on the Budget",
              published |-> "2025-05-01T14:00:00+00:00"]}
      [] channel = "Fox News" ->
            {[video_id |-> "c", title |-> "Trump Rally in Michigan",
              published |-> "2025-05-02T23:00:00+00:00"]}

\* keyword in title.lower(), for the titles of TsFeed
TsTitleHas(title, keyword) ==
    <<title, keyword>> \in
        {<<"President Trump Delivers Remarks on Tariffs", "trump">>,
         <<"President Trump Delivers Remarks on Tariffs", "president trump">>,
         <<"President Trump Delivers Remarks on Tariffs", "remarks">>,
         <<"President Trump Delivers Remarks on Tariffs", "delivers">>,
         <<"Trump Remarks on Tariffs", "trump">>,
         <<"Trump Remarks on Tariffs", "remarks">>,
         <<"Trump Rally in Michigan", "trump">>,
         <<"Trump Rally in Michigan", "rally">>}

\* _is_trump_speech
ts_is_trump_speech(title, source) ==
    LET has_trump == \E i \in 1..Len(TITLE_KEYWORDS) : TsTitleHas(title, TITLE_KEYWORDS[i])
        has_speech ==
            \E i \in 1..Len(SPEECH_KEYWORDS) : TsTitleHas(title, SPEECH_KEYWORDS[i])
    IN  IF source = "White House" THEN has_speech ELSE has_trump /\ has_speech

\* _extract_topic, for the titles of TsFeed: the topic words, in order
ts_extract_topic(title) ==
    CASE title = "President Trump Delivers Remarks on Tariffs" ->
            <<"delivers", "remarks", "tariffs">>
      [] title = "Trump Remarks on Tariffs" -> <<"remarks", "tariffs">>
      [] title = "Trump Rally in Michigan" -> <<"rally", "michigan">>
      [] OTHER -> <<"senate", "hearing", "budget">>

\* video.get("published", "")[:10]
ts_pub_date(published) ==
    CASE published = "2025-05-01T18:00:00+00:00" -> "2025-05-01"
      [] published = "2025-05-01T18:05:00+00:00" -> "2025-05-01"
      [] published = "2025-05-01T14:00:00+00:00" -> "2025-05-01"
      [] OTHER -> "2025-05-02"

\* _topics_similar: more than 30% of the words of the two topics are shared
ts_topics_similar(topic1, topic2) ==
    LET words1 == Range(topic1)
        words2 == Range(topic2)
    IN  IF words1 = {} \/ words2 = {} THEN FALSE
        ELSE Cardinality(words1 \cap words2) * 10 > 3 * Cardinality(words1 \cup words2)

\* What yt-dlp gives for one video: the duration (<<>> for None) and the captions
\* (length 0 for None), and whether the summary request and channel.send succeed;
\* or the loop task is cancelled while _process_video is suspended for the video
\* (every write of _process_video comes after its last await has returned).
TsCaptions ==
    {[text |-> "", len |-> 0], [text |-> "A", len |-> 9000], [text |-> "B", len |-> 7000]}

TsEnvs ==
    {[duration |-> d, captions |-> [text |-> "", len |-> 0], llm_ok |-> TRUE,
      send_ok |-> TRUE, cancelled |-> FALSE] : d \in {<<>>, <<300>>, <<1200>>}}
    \cup
    {[duration |-> <<1200>>, captions |-> c, llm_ok |-> TRUE, send_ok |-> TRUE,
      cancelled |-> FALSE] : c \in {x \in TsCaptions : x.len > 0}}
    \cup
    {[duration |-> <<1200>>, captions |-> [text |-> "A", len |-> 9000],
      llm_ok |-> o[1], send_ok |-> o[2], cancelled |-> FALSE] :
        o \in {<<FALSE, TRUE>>, <<TRUE, FALSE>>}}
    \cup
    {[duration |-> <<>>, captions |-> [text |-> "", len |-> 0], llm_ok |-> TRUE,
      send_ok |-> TRUE, cancelled |-> TRUE]}

\* _hash_transcript: sha256 of the normalised first 500 words
ts_hash_transcript(text) == <<"sha256", text>>

\* _save_data / _load_data: {"speeches": [...]}, an empty list when the file is missing
ts_save_data(data) == [exists |-> TRUE, data |-> data]

ts_load_data(file) == IF ~file.exists THEN [speeches |-> <<>>] ELSE file.data

\* The least index of `hits`, 0 when there is none: the speech at which a
\* `for speech in data["speeches"]` loop returns.
FirstSpeech(hits) ==
    IF hits = {} THEN 0 ELSE CHOOSE i \in hits : \A j \in hits : i <= j

\* An append that does not look whether the record has the id.
ts_add_video_id_always(file, data, n, video_id) ==
    ts_save_data([data EXCEPT !.speeches[n].video_ids = Append(@, video_id)])

\* if video_id not in speech["video_ids"]: speech["video_ids"].append(video_id);
\* _save_data(data)
ts_add_video_id(file, data, n, video_id) ==
    IF video_id \in Range(data.speeches[n].video_ids) THEN file
    ELSE ts_save_data([data EXCEPT !.speeches[n].video_ids = Append(@, video_id)])

\* A handler of the failed summary that gives the video up.
ts_summary_failed_marks(seen, video_id) == seen \cup {video_id}

\* except Exception: log.exception(...); return  # Don't mark as seen, retry next time
ts_summary_failed(seen, video_id) == seen

\* TrumpSpeechWatcher._process_video: the seen ids and the data file after it, and
\* how it ended.
ts_process_video(video, env, seen, file) ==
    LET video_id == video.video_id
        marked == seen \cup {video_id}
        pub_date == ts_pub_date(video.published)
        topic == ts_extract_topic(video.title)
        data == ts_load_data(file)
        covered == FirstSpeech({n \in 1..Len(data.speeches) :
                                   /\ data.speeches[n].date = pub_date
                                   /\ ts_topics_similar(data.speeches[n].topic, topic)})
        transcript_hash == ts_hash_transcript(env.captions.text)
        same == FirstSpeech({n \in 1..Len(data.speeches) :
                                data.speeches[n].transcript_hash = transcript_hash})
    IN  IF env.cancelled
        THEN [seen |-> seen, file |-> file, out |-> "cancelled"]
        ELSE IF env.duration = <<>>
        THEN [seen |-> marked, file |-> file, out |-> "no_duration"]
        ELSE IF env.duration[1] < MIN_DURATION_SECONDS
        THEN [seen |-> marked, file |-> file, out |-> "too_short"]
        ELSE IF covered # 0
        THEN [seen |-> marked, file |-> ts_add_video_id(file, data, covered, video_id),
              out |-> "covered"]
        ELSE IF env.captions.len < MIN_CAPTIONS
        THEN [seen |-> marked, file |-> file, out |-> "no_captions"]
        ELSE IF same # 0
        THEN [seen |-> marked, file |-> ts_add_video_id(file, data, same, video_id),
              out |-> "same_transcript"]
        ELSE IF ~env.llm_ok
        THEN [seen |-> ts_summary_failed(seen, video_id), file |-> file,
              out |-> "llm_raised"]
        ELSE IF ~env.send_ok
        THEN [seen |-> seen, file |-> file, out |-> "send_raised"]
        ELSE [seen |-> marked,
              file |-> ts_save_data([data EXCEPT !.speeches =
                          Append(@, [date |-> pub_date, topic |-> topic,
                                     transcript_hash |-> transcript_hash,
                                     video_ids |-> <<video_id>>])]),
              out |-> "ok"]

\* for video in new_videos: await self._process_video(channel, video)
\* An exception of channel.send leaves the loop (handler of the whole body, line 303),
\* and so does the cancellation.
RECURSIVE ts_process_loop(_, _, _, _)
ts_process_loop(new_videos, envs, i, acc) ==
    IF i > Len(new_videos) THEN [acc EXCEPT !.completed = TRUE]
    ELSE LET video == new_videos[i]
             done == ts_process_video(video, envs[i], acc.seen, acc.file)
             tried == [Attempt(acc, i, video, done.out) EXCEPT
                          !.seen = done.seen, !.file = done.file]
         IN  IF Leaves(done.out)
             THEN tried
             ELSE ts_process_loop(new_videos, envs, i + 1, tried)

\* What one _fetch_channel_videos call gives: an exception (caught per channel,
\* lines 265-266), or the entries of the feed.
TsResultsOf(channel) ==
    {[ok |-> FALSE, items |-> <<>>]} \cup
    {[ok |-> TRUE, items |-> a] : a \in SeqsUpTo(TsFeed(channel), MaxFetch)}

\* all_videos: the videos of the channels whose fetch did not raise, each with its
\* source, in the order of YOUTUBE_CHANNELS.
RECURSIVE ts_all_videos(_, _)
ts_all_videos(results, k) ==
    IF k > Len(YOUTUBE_CHANNELS) THEN <<>>
    ELSE LET channel_name == YOUTUBE_CHANNELS[k]
             videos == results[channel_name].items
         IN  [i \in 1..Len(videos) |->
                [video_id |-> videos[i].video_id, title |-> videos[i].title,
                 published |-> videos[i].published, source |-> channel_name]]
             \o ts_all_videos(results, k + 1)

\* The video ids of the speech records of the data file (lines 279-281).
RECURSIVE ts_recorded_ids(_, _)
ts_recorded_ids(speeches, i) ==
    IF i > Len(speeches) THEN {}
    ELSE Range(speeches[i].video_ids) \cup ts_recorded_ids(speeches, i + 1)

\* TrumpSpeechWatcher.check_speeches
check_speeches ==
    /\ cog = "trump_speech"
    /\ LoopBetweenIterations
    /\ UNCHANGED <<yt_vars, pn_vars, nin_vars, wow_vars, rsi_vars, ai_vars>>
    /\ \E r1 \in TsResultsOf("White House"), r2 \in TsResultsOf("C-SPAN"),
          r3 \in TsResultsOf("Fox News") :
         LET results == [q \in Range(YOUTUBE_CHANNELS) |->
                            CASE q = "White House" -> r1 [] q = "C-SPAN" -> r2
                              [] q = "Fox News" -> r3]
             all_videos == ts_all_videos(results, 1)
             trump_videos ==
                 SelectSeq(all_videos, LAMBDA v : ts_is_trump_speech(v.title, v.source))
             new_videos ==
                 SelectSeq(trump_videos, LAMBDA v : v.video_id \notin ts_seen_video_ids)
             rec(seeding, channel_ok, new, attempts, reached) ==
                 [PollRec(all_videos, seeding, channel_ok, new, attempts, reached,
                          ts_seen_video_ids)
                    EXCEPT !.failed = {q \in Range(YOUTUBE_CHANNELS) : ~results[q].ok},
                           !.fetch_ok = \E q \in Range(YOUTUBE_CHANNELS) : results[q].ok]
         IN
         /\ Len(all_videos) <= MaxFetch
         /\ IF trump_videos = <<>>
            THEN /\ first_run' = FALSE
                 /\ UNCHANGED ts_vars
                 /\ last' = rec(first_run, FALSE, <<>>, <<>>, 0)
            ELSE IF first_run
            THEN /\ ts_seen_video_ids' =
                        ts_seen_video_ids
                          \cup ts_recorded_ids(ts_load_data(ts_file).speeches, 1)
                          \cup {v.video_id : v \in Range(trump_videos)}
                 /\ first_run' = FALSE
                 /\ UNCHANGED ts_file
                 /\ last' = rec(TRUE, FALSE, <<>>, <<>>, 0)
            ELSE IF new_videos = <<>>
            THEN /\ UNCHANGED <<first_run, ts_vars>>
                 /\ last' = rec(FALSE, FALSE, <<>>, <<>>, 0)
            ELSE \/ \* bot.get_channel returned None
                    /\ UNCHANGED <<first_run, ts_vars>>
                    /\ last' = rec(FALSE, FALSE, new_videos, <<>>, 0)
                 \/ \E envs \in [1..Len(new_videos) -> TsEnvs] :
                      LET loop == ts_process_loop(new_videos, envs, 1,
                                     [seen |-> ts_seen_video_ids, file |-> ts_file,
                                      attempts |-> <<>>, reached |-> 0,
                                      completed |-> FALSE])
                      IN  /\ ts_seen_video_ids' = loop.seen
                          /\ ts_file' = loop.file
                          /\ UNCHANGED first_run
                          /\ last' = rec(FALSE, TRUE, new_videos, loop.attempts,
                                         loop.reached)
    /\ Ghosts

\* ---------------------------------------------------- media_request.py
MaxRequests == 3

MEDIA_STATUS_AVAILABLE == 5

\* No poll_availability call has run yet.  pc is where the loop task stands:
\* "idle" between two calls, "status" suspended at `await
\* self.overseerr.get_request_status` (line 223) and "send" suspended at `await
\* channel.send` (line 243) for the request at `pos`, "failed" ended by an
\* exception, "cancelled" ended by cog_unload.
MrNoPoll ==
    [pc |-> "idle", size |-> 0, pos |-> 0, resolved |-> <<>>, checked |-> <<>>,
     ended |-> "", pending0 |-> <<>>]

\* MediaRequest.__init__: self.pending = {}
MediaRequest_init == <<>>

\* What overseerr.request_media gives ConfirmView.confirm: an exception, a result
\* without the ids, or the id of the new request (Overseerr numbers its requests;
\* an id is given out once); and, for a new request, whether `await
\* interaction.followup.send` (line 106) then returns (`followup`), or raises or
\* is where the process ends, so that line 110 is not reached.
MrResults ==
    {[ok |-> FALSE, id |-> 0, media_id |-> 0, followup |-> TRUE],
     [ok |-> TRUE, id |-> 0, media_id |-> 0, followup |-> TRUE]}
    \cup {[ok |-> TRUE, id |-> n, media_id |-> n, followup |-> f] :
             n \in (1..MaxRequests) \ mr_hist.requested, f \in BOOLEAN}

\* self.cog.pending[request_id] = PendingRequest(...): a new key goes to the end of
\* the dict, an existing key keeps its place.
mr_setitem(pending, request_id) ==
    IF request_id \in Range(pending) THEN pending ELSE Append(pending, request_id)

\* ConfirmView.confirm: Overseerr has the request when request_media returns; the
\* request is put into self.cog.pending after followup.send has returned.
confirm ==
    /\ \E result \in MrResults :
         IF result.ok /\ result.id # 0 /\ result.media_id # 0
         THEN /\ mr_hist' = [mr_hist EXCEPT !.requested = @ \cup {result.id}]
              /\ mr_pending' = IF result.followup
                               THEN mr_setitem(mr_pending, result.id)
                               ELSE mr_pending
         ELSE UNCHANGED <<mr_pending, mr_hist>>
    /\ UNCHANGED <<mr_poll, watcher_vars, shop_vars, bday_vars>>

\* What `await self.overseerr.get_request_status(session, req_id)` gives when it is
\* resumed: an exception, or the request with the status of its media; and what
\* self.bot.get_channel(pending.channel_id) then gives, the channel or None.
MrReplies ==
    {[raised |-> TRUE, status |-> 0, channel |-> TRUE],
     [raised |-> FALSE, status |-> 3, channel |-> TRUE],
     [raised |-> FALSE, status |-> 5, channel |-> FALSE],
     [raised |-> FALSE, status |-> 5, channel |-> TRUE]}

\* next() of the iterator of self.pending.items(): the dict's size is compared with
\* its size when the iterator was made before anything else.
mr_next(pending, poll) ==
    IF Len(pending) # poll.size THEN "RuntimeError"
    ELSE IF poll.pos > poll.size THEN "StopIteration"
    ELSE "item"

\* for req_id in resolved: self.pending.pop(req_id, None)
mr_pop_resolved(pending, resolved) ==
    SelectSeq(pending, LAMBDA req_id : req_id \notin Range(resolved))

\* The body of the loop has ended for the request at poll.pos with outcome `out`
\* (resolved.append(req_id) when it ended at line 245), and the for statement asks
\* the iterator for the next item.  With an item the body begins again and is
\* suspended at line 223.  At the end of the dict lines 249-250 pop what was
\* resolved.  A RuntimeError of the iterator leaves the coroutine (the for
\* statement is outside the try) and ends the tasks.loop task.
mr_body_end(pending, poll, out) ==
    LET req_id == pending[poll.pos]
        done == [poll EXCEPT
                    !.pos = @ + 1,
                    !.checked = Append(@, [id |-> req_id, out |-> out]),
                    !.resolved = IF out \in {"sent", "no_channel"}
                                 THEN Append(@, req_id) ELSE @]
        nxt == mr_next(pending, done)
    IN  IF nxt = "RuntimeError"
        THEN [pending |-> pending,
              poll |-> [done EXCEPT !.pc = "failed", !.ended = "RuntimeError"]]
        ELSE IF nxt = "StopIteration"
        THEN [pending |-> mr_pop_resolved(pending, done.resolved),
              poll |-> [done EXCEPT !.pc = "idle", !.ended = "completed"]]
        ELSE [pending |-> pending, poll |-> [done EXCEPT !.pc = "status"]]

\* MediaRequest.poll_availability, from its start to its return when nothing is
\* pending, else to the await of line 223 for the first request.
poll_availability ==
    /\ mr_poll.pc = "idle"
    /\ mr_poll' = IF mr_pending = <<>>
                  THEN [MrNoPoll EXCEPT !.ended = "empty"]
                  ELSE [MrNoPoll EXCEPT !.pc = "status", !.size = Len(mr_pending),
                                        !.pos = 1, !.pending0 = mr_pending]
    /\ UNCHANGED <<mr_pending, mr_hist, watcher_vars, shop_vars, bday_vars>>

\* poll_availability is resumed at line 223, and runs to the await of line 243 or
\* to the end of the body of the loop.
poll_get_request_status ==
    /\ mr_poll.pc = "status"
    /\ \E reply \in MrReplies :
         IF ~reply.raised /\ reply.status >= MEDIA_STATUS_AVAILABLE /\ reply.channel
         THEN /\ mr_poll' = [mr_poll EXCEPT !.pc = "send"]
              /\ UNCHANGED mr_pending
         ELSE LET out == IF reply.raised THEN "status_raised"
                         ELSE IF reply.status >= MEDIA_STATUS_AVAILABLE
                         THEN "no_channel" ELSE "not_available"
                  after == mr_body_end(mr_pending, mr_poll, out)
              IN  /\ mr_poll' = after.poll
                  /\ mr_pending' = after.pending
    /\ UNCHANGED <<mr_hist, watcher_vars, shop_vars, bday_vars>>

\* poll_availability is resumed at line 243: the message was sent, or channel.send
\* raised (the handler of line 246 logs it).
poll_channel_send ==
    /\ mr_poll.pc = "send"
    /\ \E send_ok \in BOOLEAN :
         LET req_id == mr_pending[mr_poll.pos]
             after == mr_body_end(mr_pending, mr_poll,
                                  IF send_ok THEN "sent" ELSE "send_raised")
         IN  /\ mr_poll' = after.poll
             /\ mr_pending' = after.pending
             /\ mr_hist' = IF send_ok THEN [mr_hist EXCEPT !.sent[req_id] = @ + 1]
                           ELSE mr_hist
    /\ UNCHANGED <<watcher_vars, shop_vars, bday_vars>>

\* MediaRequest.cog_unload: self.poll_availability.cancel().  A call that is
\* suspended gets asyncio.CancelledError at its await; no `except Exception`
\* catches it, so the call ends there (an unfinished send sends nothing, what was
\* resolved is not popped); a loop that sleeps between two calls just ends.
cog_unload ==
    /\ mr_poll.pc \in {"idle", "status", "send"}
    /\ mr_poll' = [mr_poll EXCEPT !.pc = "cancelled",
                                  !.ended = IF mr_poll.pc = "idle" THEN @
                                            ELSE "cancelled"]
    /\ UNCHANGED <<mr_pending, mr_hist, watcher_vars, shop_vars, bday_vars>>

\* ---------------------------------------------------- shopping_list.py
MaxList == 3      \* items on the list
MaxTasks == 2     \* handlers running at a time
MaxItems == 2     \* items of one parsed action

\* JSON values: the strings a user or the LLM can name, and a value that is not a
\* string (the LLM's JSON is not validated).
SlNames == {JsonStr("milk"), JsonStr("Milk"), JsonStr("eggs")}

SlNotAString == [type |-> "number", v |-> "2"]

\* str.lower, for the strings of SlNames
sl_lower(item) == IF item = JsonStr("Milk") THEN JsonStr("milk") ELSE item

\* _save_list: json.dumps(items)
sl_save_list(items) == [exists |-> TRUE, data |-> items]

\* _load_list: [] when the file is missing
sl_load_list(file) == IF ~file.exists THEN <<>> ELSE file.data

\* The handlers and their arguments: the commands !add, !remove, !clear, and the
\* action _handle_action gets from the parsed answer of the LLM.
SlCalls ==
    {[op |-> "add_item", items |-> <<x>>] : x \in SlNames}
    \cup {[op |-> "remove_item", items |-> <<x>>] : x \in SlNames}
    \cup {[op |-> "clear_list", items |-> <<>>]}
    \cup {[op |-> a, items |-> xs] :
             a \in {"add", "remove"},
             xs \in SeqsUpTo(SlNames \cup {JsonStr(""), SlNotAString}, MaxItems)}
    \cup {[op |-> a, items |-> <<>>] : a \in {"clear", "show"}}

\* for item in items_to_process:
\*     if item and item.lower() not in [i.lower() for i in self.items]: append
\* item.lower() of a value that is not a string raises AttributeError, which ends
\* the loop with what was appended so far.
RECURSIVE sl_add_loop(_, _, _)
sl_add_loop(items_to_process, i, items) ==
    IF i > Len(items_to_process) THEN [items |-> items, raised |-> FALSE]
    ELSE LET item == items_to_process[i]
         IN  IF item = JsonStr("") THEN sl_add_loop(items_to_process, i + 1, items)
             ELSE IF item.type # "str" THEN [items |-> items, raised |-> TRUE]
             ELSE IF \E j \in 1..Len(items) : sl_lower(items[j]) = sl_lower(item)
             THEN sl_add_loop(items_to_process, i + 1, items)
             ELSE sl_add_loop(items_to_process, i + 1, Append(items, item))

\* [i for i in self.items if i.lower() not in items_lower]
sl_remove(items, items_to_process) ==
    SelectSeq(items, LAMBDA i : \A j \in 1..Len(items_to_process) :
                                   sl_lower(i) # sl_lower(items_to_process[j]))

\* No handler runs in the slot.
SlNoTask == [pc |-> "idle", call |-> [op |-> "show", items |-> <<>>]]

\* A handler is called: it runs (through the request to the LLM, for a message) up
\* to `async with self._lock`.
sl_call(t) ==
    /\ sl_tasks[t].pc = "idle"
    /\ \E call \in SlCalls :
         /\ call.op \in {"add_item", "add"} => Len(sl_items) + Len(call.items) <= MaxList
         /\ sl_tasks' = [sl_tasks EXCEPT ![t] = [pc |-> "at_lock", call |-> call]]
    /\ UNCHANGED <<sl_items, sl_file, sl_lock, watcher_vars, media_vars, bday_vars>>

\* The handler gets the lock and runs the body of `async with self._lock` up to
\* its end or to the await inside it (remove_item, line 187).
sl_locked_body(t) ==
    /\ sl_tasks[t].pc = "at_lock"
    /\ sl_lock = 0
    /\ LET call == sl_tasks[t].call
           done == [sl_tasks EXCEPT ![t] = SlNoTask]
       IN  CASE call.op = "add_item" ->
                  /\ sl_items' = Append(sl_items, call.items[1])
                  /\ sl_file' = sl_save_list(sl_items')
                  /\ sl_tasks' = done
                  /\ UNCHANGED sl_lock
             [] call.op = "remove_item" ->
                  /\ sl_items' = sl_remove(sl_items, call.items)
                  /\ IF Len(sl_items') = Len(sl_items)
                     THEN /\ sl_lock' = t
                          /\ sl_tasks' = [sl_tasks EXCEPT ![t].pc = "not_on_list"]
                          /\ UNCHANGED sl_file
                     ELSE /\ sl_file' = sl_save_list(sl_items')
                          /\ sl_tasks' = done
                          /\ UNCHANGED sl_lock
             [] call.op \in {"clear_list", "clear"} ->
                  /\ sl_items' = <<>>
                  /\ sl_file' = sl_save_list(sl_items')
                  /\ sl_tasks' = done
                  /\ UNCHANGED sl_lock
             [] call.op = "add" ->
                  LET loop == sl_add_loop(call.items, 1, sl_items)
                  IN  /\ sl_items' = loop.items
                      /\ sl_file' = IF loop.raised THEN sl_file
                                    ELSE sl_save_list(sl_items')
                      /\ sl_tasks' = done
                      /\ UNCHANGED sl_lock
             [] call.op = "remove" ->
                  IF \E j \in 1..Len(call.items) : call.items[j].type # "str"
                  THEN /\ sl_tasks' = done
                       /\ UNCHANGED <<sl_items, sl_file, sl_lock>>
                  ELSE /\ sl_items' = sl_remove(sl_items, call.items)
                       /\ sl_file' = sl_save_list(sl_items')
                       /\ sl_tasks' = done
                       /\ UNCHANGED sl_lock
             [] call.op = "show" ->
                  /\ sl_tasks' = done
                  /\ UNCHANGED <<sl_items, sl_file, sl_lock>>
    /\ UNCHANGED <<watcher_vars, media_vars, bday_vars>>

\* remove_item: ctx.send("... is not on the list.") has returned; the return
\* inside `async with` releases the lock.
sl_not_on_list_return(t) ==
    /\ sl_tasks[t].pc = "not_on_list"
    /\ sl_lock = t
    /\ sl_lock' = 0
    /\ sl_tasks' = [sl_tasks EXCEPT ![t] = SlNoTask]
    /\ UNCHANGED <<sl_items, sl_file, watcher_vars, media_vars, bday_vars>>

\* -------------------------------------------------------- birthdays.py
MaxEntries == 2     \* entries of data/birthdays.json, of the two lists together
MaxBetween == 1     \* commands served while daily_check is suspended at one await

\* The date arguments, as their characters: 02-29, 3-1, 02-30, 0301 and x-1.
BdDateStrs ==
    {<<"0", "2", "-", "2", "9">>, <<"3", "-", "1">>, <<"0", "2", "-", "3", "0">>,
     <<"0", "3", "0", "1">>, <<"x", "-", "1">>}

BdNames == {"Ann", "ann", "Bob"}

\* The days on which a handler runs: datetime.now(EASTERN).date()
BdTodays ==
    {[year |-> 2024, month |-> 2, day |-> 29], [year |-> 2024, month |-> 3, day |-> 1],
     [year |-> 2025, month |-> 2, day |-> 24]}

\* str.lower, for the names of BdNames
bd_lower(name) == IF name = "Ann" THEN "ann" ELSE IF name = "Bob" THEN "bob" ELSE name

\* date_str.split("-"): the fields between the dashes
RECURSIVE bd_split(_, _, _)
bd_split(chars, i, field) ==
    IF i > Len(chars) THEN <<field>>
    ELSE IF chars[i] = "-" THEN <<field>> \o bd_split(chars, i + 1, <<>>)
    ELSE bd_split(chars, i + 1, Append(field, chars[i]))

\* int(s) for a field of digits; -1 stands for ValueError (no digits, or another
\* character)
RECURSIVE bd_int(_, _, _)
bd_int(field, i, n) ==
    IF field = <<>> THEN -1
    ELSE IF i > Len(field) THEN n
    ELSE LET digit == CASE field[i] = "0" -> 0 [] field[i] = "1" -> 1
                        [] field[i] = "2" -> 2 [] field[i] = "3" -> 3
                        [] field[i] = "5" -> 5 [] field[i] = "9" -> 9
                        [] OTHER -> -1
         IN  IF digit = -1 THEN -1 ELSE bd_int(field, i + 1, 10 * n + digit)

\* _parse_date: (int(parts[0]), int(parts[1])), or the exception it raises
bd_parse_date(date_str) ==
    LET parts == bd_split(date_str, 1, <<>>)
    IN  IF bd_int(parts[1], 1, 0) = -1 THEN [raised |-> "ValueError", month |-> 0, day |-> 0]
        ELSE IF Len(parts) < 2 THEN [raised |-> "IndexError", month |-> 0, day |-> 0]
        ELSE IF bd_int(parts[2], 1, 0) = -1
        THEN [raised |-> "ValueError", month |-> 0, day |-> 0]
        ELSE [raised |-> "", month |-> bd_int(parts[1], 1, 0),
              day |-> bd_int(parts[2], 1, 0)]

\* datetime.date(year, month, day) does not raise ValueError
bd_is_leap(year) == year % 4 = 0 /\ (year % 100 # 0 \/ year % 400 = 0)

bd_days_in_month(year, month) ==
    IF month = 2 THEN (IF bd_is_leap(year) THEN 29 ELSE 28)
    ELSE IF month \in {4, 6, 9, 11} THEN 30 ELSE 31

bd_is_date(year, month, day) ==
    month \in 1..12 /\ day >= 1 /\ day <= bd_days_in_month(year, month)

\* The days of the years from 2024 to the year before `year`.
RECURSIVE bd_days_before_year(_)
bd_days_before_year(year) ==
    IF year > 2024
    THEN (IF bd_is_leap(year - 1) THEN 366 ELSE 365) + bd_days_before_year(year - 1)
    ELSE 0

\* The days of `year` up to the day, with the lengths of the months of `year`.
RECURSIVE bd_day_of_year(_, _, _)
bd_day_of_year(year, month, day) ==
    IF month > 1
    THEN bd_days_in_month(year, month - 1) + bd_day_of_year(year, month - 1, day)
    ELSE day

\* date.toordinal, counted from 31 December of 2023: the difference of two
\* ordinals is the `.days` of the difference of the dates.
bd_ordinal(year, month, day) ==
    bd_days_before_year(year) + bd_day_of_year(year, month, day)

\* _days_until: the days to the next occurrence, or -1 for the ValueError of
\* date(today.year, month, day) or date(today.year + 1, month, day)
bd_days_until(month, day, today) ==
    LET now == bd_ordinal(today.year, today.month, today.day)
    IN  IF ~bd_is_date(today.year, month, day) THEN -1
        ELSE IF bd_ordinal(today.year, month, day) >= now
        THEN bd_ordinal(today.year, month, day) - now
        ELSE IF ~bd_is_date(today.year + 1, month, day) THEN -1
        ELSE bd_ordinal(today.year + 1, month, day) - now

\* _load_data / _save_data
bd_load_data(file) ==
    IF ~file.exists THEN [birthdays |-> <<>>, anniversaries |-> <<>>] ELSE file.data

bd_save_data(data) == [exists |-> TRUE, data |-> data]

\* No handler of the cog has run.
BdNoCall ==
    [op |-> "init", date_str |-> <<>>, out |-> "",
     reminders |-> <<>>, changed |-> FALSE]

\* The daily_check loop task (tasks.loop) sleeps until REMINDER_TIME.  pc is where
\* the task stands: "idle" between two calls of daily_check, "send" suspended at
\* an `await channel.send` of _check_birthdays or _check_anniversaries for the
\* entry at the head of `queue`, "failed" ended by an exception, "cancelled" ended
\* by cog_unload.  `queue` is what the two loops have still to go through of the
\* `data` that daily_check loaded, `sent` the reminders the call has sent.
\* `between` counts the commands served since the call was suspended.
BdNoTask ==
    [pc |-> "idle", today |-> <<>>, queue |-> <<>>, sent |-> <<>>, between |-> 0]

\* The commands are served until the cog is unloaded; at most MaxBetween of them
\* while daily_check is suspended at one await.
BdServing ==
    /\ bd_task.pc # "cancelled"
    /\ bd_task.pc = "send" => bd_task.between < MaxBetween

\* The loop task when a command has been served.
bd_served ==
    IF bd_task.pc = "send" THEN [bd_task EXCEPT !.between = @ + 1] ELSE bd_task

\* A name check that tells "Ann" from "ann".
bd_name_exists_exact(entries, name) ==
    \E i \in 1..Len(entries) : entries[i].name = name

\* for entry in data[kind]: if entry["name"].lower() == name.lower()
bd_name_exists(entries, name) ==
    \E i \in 1..Len(entries) : bd_lower(entries[i].name) = bd_lower(name)

\* BirthdayReminder.birthday_add / anniversary_add (kind: the list of the data)
bd_add(kind) ==
    /\ BdServing
    /\ \E name \in BdNames, date_str \in BdDateStrs :
        LET parsed == bd_parse_date(date_str)
            data == bd_load_data(bd_file)
            did(out) == [BdNoCall EXCEPT !.op = "add", !.date_str = date_str,
                                         !.out = out,
                                         !.changed = (bd_file' # bd_file)]
        IN  /\ IF parsed.raised # "" \/ ~bd_is_date(2000, parsed.month, parsed.day)
               THEN /\ UNCHANGED bd_file
                    /\ bd_last' = did("invalid")
               ELSE IF bd_name_exists(data[kind], name)
               THEN /\ UNCHANGED bd_file
                    /\ bd_last' = did("exists")
               ELSE /\ Len(data.birthdays) + Len(data.anniversaries) < MaxEntries
                    /\ bd_file' = bd_save_data(
                           [data EXCEPT ![kind] =
                               Append(@, [name |-> name, date |-> date_str])])
                    /\ bd_last' = did("added")
    /\ bd_task' = bd_served
    /\ UNCHANGED <<bd_last_check_date, watcher_vars, media_vars, shop_vars>>

birthday_add == bd_add("birthdays")

anniversary_add == bd_add("anniversaries")

\* BirthdayReminder.birthday_remove / anniversary_remove
bd_remove(kind) ==
    /\ BdServing
    /\ \E name \in BdNames :
        LET data == bd_load_data(bd_file)
            kept == SelectSeq(data[kind], LAMBDA b : bd_lower(b.name) # bd_lower(name))
            did(out) == [BdNoCall EXCEPT !.op = "remove", !.out = out,
                                         !.changed = (bd_file' # bd_file)]
        IN  /\ IF Len(kept) = Len(data[kind])
               THEN /\ UNCHANGED bd_file
                    /\ bd_last' = did("not_found")
               ELSE /\ bd_file' = bd_save_data([data EXCEPT ![kind] = kept])
                    /\ bd_last' = did("removed")
    /\ bd_task' = bd_served
    /\ UNCHANGED <<bd_last_check_date, watcher_vars, media_vars, shop_vars>>

birthday_remove == bd_remove("birthdays")

anniversary_remove == bd_remove("anniversaries")

\* What daily_check goes through: data["birthdays"] in _check_birthdays, then
\* data["anniversaries"] in _check_anniversaries.
bd_queue(data) ==
    [i \in 1..Len(data.birthdays) |->
        [kind |-> "birthday", name |-> data.birthdays[i].name,
         date |-> data.birthdays[i].date]]
    \o [i \in 1..Len(data.anniversaries) |->
          [kind |-> "anniversary", name |-> data.anniversaries[i].name,
           date |-> data.anniversaries[i].date]]

\* month, day = _parse_date(entry["date"]); days = _days_until(month, day, today)
\* (-1 for an exception of either)
bd_entry_days(entry, today) ==
    LET parsed == bd_parse_date(entry.date)
    IN  IF parsed.raised # "" THEN -1
        ELSE bd_days_until(parsed.month, parsed.day, today)

\* _check_birthdays / _check_anniversaries from the head of `queue` on, up to the
\* first entry for which a reminder is sent (days == 0, or days == 5), to the
\* entry for which _days_until raises, or to the end of the two loops.
RECURSIVE bd_check(_, _)
bd_check(queue, today) ==
    IF queue = <<>> THEN [out |-> "end", queue |-> queue]
    ELSE LET days == bd_entry_days(queue[1], today)
         IN  IF days = -1 THEN [out |-> "ValueError", queue |-> queue]
             ELSE IF days \in {0, 5} THEN [out |-> "send", queue |-> queue]
             ELSE bd_check(Tail(queue), today)

\* daily_check runs on from `run`: it is suspended at channel.send, it is left by
\* the ValueError (which ends the loop task: tasks.loop goes on after the
\* exceptions of a lost connection only), or the two loops have ended and line 109
\* sets self._last_check_date.
bd_run_on(today, run, sent) ==
    LET did(out) == [BdNoCall EXCEPT !.op = "daily_check", !.out = out,
                                     !.reminders = sent]
    IN  CASE run.out = "send" ->
               /\ bd_task' = [pc |-> "send", today |-> <<today>>, queue |-> run.queue,
                              sent |-> sent, between |-> 0]
               /\ UNCHANGED <<bd_last, bd_last_check_date>>
          [] run.out = "ValueError" ->
               /\ bd_task' = [BdNoTask EXCEPT !.pc = "failed"]
               /\ bd_last' = did("ValueError")
               /\ UNCHANGED bd_last_check_date
          [] run.out = "end" ->
               /\ bd_task' = BdNoTask
               /\ bd_last' = did("checked")
               /\ bd_last_check_date' = <<today>>

\* BirthdayReminder.daily_check, from its start to its return, to the exception
\* that leaves it, or to the first await of channel.send.
daily_check ==
    /\ bd_task.pc = "idle"
    /\ \E today \in BdTodays, channel \in BOOLEAN :
         LET did(out) == [BdNoCall EXCEPT !.op = "daily_check", !.out = out]
         IN  IF bd_last_check_date = <<today>>
             THEN /\ bd_last' = did("duplicate")
                  /\ UNCHANGED <<bd_last_check_date, bd_task>>
             ELSE IF ~channel
             THEN /\ bd_last' = did("no_channel")
                  /\ UNCHANGED <<bd_last_check_date, bd_task>>
             ELSE bd_run_on(today, bd_check(bd_queue(bd_load_data(bd_file)), today), <<>>)
    /\ UNCHANGED <<bd_file, watcher_vars, media_vars, shop_vars>>

\* What `await channel.send(embed=embed)` gives when it is resumed: the message
\* was sent; an exception that ends the loop task (discord.HTTPException); or an
\* exception of the connection (OSError, aiohttp.ClientError), after which
\* tasks.loop calls daily_check again.
\*
\* daily_check is resumed at `await channel.send` (lines 121, 125, 140, 144) and
\* runs on to the next await or to its end.  The commands run between the two
\* steps; the loops go through the data loaded at line 106.
daily_check_send ==
    /\ bd_task.pc = "send"
    /\ \E out \in {"sent", "HTTPException", "OSError"} :
         LET today == bd_task.today[1]
             entry == bd_task.queue[1]
             reminder == [kind |-> entry.kind, name |-> entry.name,
                          days |-> bd_entry_days(entry, today)]
             did(o) == [BdNoCall EXCEPT !.op = "daily_check", !.out = o,
                                        !.reminders = bd_task.sent]
         IN  CASE out = "sent" ->
                    bd_run_on(today, bd_check(Tail(bd_task.queue), today),
                              Append(bd_task.sent, reminder))
               [] out = "HTTPException" ->
                    /\ bd_task' = [BdNoTask EXCEPT !.pc = "failed"]
                    /\ bd_last' = did("send_raised")
                    /\ UNCHANGED bd_last_check_date
               [] out = "OSError" ->
                    /\ bd_task' = BdNoTask
                    /\ bd_last' = did("send_raised")
                    /\ UNCHANGED bd_last_check_date
    /\ UNCHANGED <<bd_file, watcher_vars, media_vars, shop_vars>>

\* BirthdayReminder.cog_unload: self.daily_check.cancel().  A call suspended at
\* channel.send is ended there by asyncio.CancelledError.
BirthdayReminder_cog_unload ==
    /\ bd_task.pc \in {"idle", "send"}
    /\ bd_task' = [BdNoTask EXCEPT !.pc = "cancelled"]
    /\ bd_last' = IF bd_task.pc = "send"
                  THEN [BdNoCall EXCEPT !.op = "daily_check", !.out = "cancelled",
                                        !.reminders = bd_task.sent]
                  ELSE bd_last
    /\ UNCHANGED <<bd_file, bd_last_check_date, watcher_vars, media_vars, shop_vars>>

\* BirthdayReminder.birthday_list / anniversary_list: _days_until of every entry
bd_list ==
    /\ BdServing
    /\ \E today \in BdTodays, kind \in {"birthdays", "anniversaries"} :
         LET entries == bd_load_data(bd_file)[kind]
             \* _days_until raises for an entry of the list
             raises == \E i \in 1..Len(entries) :
                           bd_entry_days(entries[i], today) = -1
             did(out) == [BdNoCall EXCEPT !.op = "list", !.out = out]
         IN  bd_last' = did(IF entries = <<>> THEN "none"
                            ELSE IF raises
                            THEN "ValueError" ELSE "listed")
    /\ bd_task' = bd_served
    /\ UNCHANGED <<bd_file, bd_last_check_date, watcher_vars, media_vars, shop_vars>>

\* ------------------------------------------------------- the command cogs
\* The cogs that serve commands, after their construction.
CommandCogsConstructed ==
    /\ mr_pending = MediaRequest_init
    /\ mr_poll = MrNoPoll
    /\ mr_hist = [requested |-> {}, sent |-> [n \in 1..MaxRequests |-> 0]]
    /\ sl_file = NoFile
    /\ sl_items = sl_load_list(sl_file)
    /\ sl_lock = 0
    /\ sl_tasks = [t \in 1..MaxTasks |-> SlNoTask]
    /\ bd_file = NoFile
    /\ bd_last_check_date = <<>>
    /\ bd_task = BdNoTask
    /\ bd_last = BdNoCall

\* Admin.restart (or the end of the process by any other means, at any time) and
\* the start of a new process: the cogs are constructed again.  MediaRequest has
\* an empty pending map (it is kept in memory only) and a loop that has not run;
\* ShoppingList loads self.items from the file, its lock is new and the handlers
\* of the old process are gone; BirthdayReminder has no _last_check_date and a
\* new loop task.  The files stay, and so does what Overseerr and Discord hold
\* (the ids given out, the messages sent).
Admin_restart ==
    /\ mr_pending' = MediaRequest_init
    /\ mr_poll' = MrNoPoll
    /\ sl_items' = sl_load_list(sl_file)
    /\ sl_lock' = 0
    /\ sl_tasks' = [t \in 1..MaxTasks |-> SlNoTask]
    /\ bd_last_check_date' = <<>>
    /\ bd_task' = BdNoTask
    /\ bd_last' = BdNoCall
    /\ UNCHANGED <<mr_hist, sl_file, bd_file, watcher_vars>>

\* ------------------------------------------------------------- the process
\* self._first_run of cog c after its construction from the files.
FirstRunAfterInit(c, ytf, aif) ==
    CASE c = "sc_youtube" -> SCYouTubeWatcher_init(ytf).first_run
      [] c = "ai_news" -> AINews_init(aif).first_run
      [] OTHER -> TRUE

\* The seen set cog c loads from its file at construction is empty.  The cogs without
\* a loaded seen set start from set() / {}.
LoadsEmpty(c, ytf, aif) ==
    CASE c = "sc_youtube" -> yt_load_seen_ids(ytf) = {}
      [] c = "ai_news" -> ai_load_seen(aif) = <<>>
      [] OTHER -> TRUE

\* Every cog of Cogs is constructed (main.load_cogs); there are no data files yet.
\* The feeds of the AI providers change freely between two fetches.
ChangingFeeds == [static |-> FALSE, items |-> <<>>]

Init ==
    /\ cog \in Cogs
    /\ yt_file = NoFile
    /\ ai_file = NoFile
    /\ ts_file = NoFile
    /\ ai_seen = AINews_init(ai_file).seen
    /\ ts_seen_video_ids = {}
    /\ seen_video_ids = SCYouTubeWatcher_init(yt_file).seen_video_ids
    /\ seen_thread_ids = {}
    /\ seen_ids = {}
    /\ wow_seen_guids = {}
    /\ wow_seen_links = {}
    /\ rsi_seen_guids = <<>>
    /\ first_run = FirstRunAfterInit(cog, yt_file, ai_file)
    /\ last = NoPoll
    /\ loaded_empty = LoadsEmpty(cog, yt_file, ai_file)
    /\ fetched_once = FALSE
    /\ repeat_after_seed = FALSE
    /\ ai_startup_feed = ChangingFeeds
    /\ CommandCogsConstructed

\* Admin.restart (or the end of the process by any other means) and the start of a
\* new process: every cog of Cogs is constructed again, from the files the old process left.
\* The old process can end at any time: before its first iteration, while the loop
\* sleeps or is suspended in a fetch (nothing has changed since the sleep began),
\* when an iteration has just returned, or in a notification (last.op = "cancelled").
Restart ==
    /\ seen_video_ids' = SCYouTubeWatcher_init(yt_file).seen_video_ids
    /\ ai_seen' = AINews_init(ai_file).seen
    /\ ts_seen_video_ids' = {}
    /\ seen_thread_ids' = {}
    /\ seen_ids' = {}
    /\ wow_seen_guids' = {}
    /\ wow_seen_links' = {}
    /\ rsi_seen_guids' = <<>>
    /\ first_run' = FirstRunAfterInit(cog, yt_file, ai_file)
    /\ loaded_empty' = LoadsEmpty(cog, yt_file, ai_file)
    /\ last' = [NoPoll EXCEPT !.op = "restart"]
    /\ fetched_once' = FALSE
    /\ repeat_after_seed' = FALSE
    /\ UNCHANGED <<cog, yt_file, ai_file, ts_file, ai_startup_feed,
                   command_vars>>

\* The loop body has returned and tasks.loop sleeps until the next interval.  Nothing
\* of the cog changes; of the record of the finished iteration only what the next
\* iteration is compared with is kept: whether it was the seeding pass, and of what.
sleep ==
    /\ last.op = "poll"
    /\ last' = [NoPoll EXCEPT !.op = "idle", !.seeding = last.seeding,
                              !.fetched = IF last.seeding THEN last.fetched ELSE <<>>]
    /\ repeat_after_seed' = FALSE
    /\ UNCHANGED <<cog, first_run, yt_vars, pn_vars, nin_vars, wow_vars,
                   rsi_vars, ai_vars, ts_vars, loaded_empty, fetched_once,
                   ai_startup_feed, command_vars>>

Next ==
    \/ check_videos
    \/ check_patch_notes
    \/ check_nintendo_direct
    \/ check_wow_patches
    \/ check_status
    \/ check_ai_news
    \/ check_speeches
    \/ sleep
    \/ Restart

Spec == Init /\ [][Next]_vars

\* The AI news cog in a world where the providers publish nothing after the bot is
\* first started: every fetch that returns gives what the feed held at the start.
StaticFeeds ==
    {[static |-> TRUE, items |-> f] :
        f \in {g \in [Range(providers) -> UNION {AiParsed(q) : q \in Range(providers)}] :
                  /\ \A q \in Range(providers) : g[q] \in AiParsed(q)
                  /\ Len(g["openai"]) + Len(g["google"]) + Len(g["anthropic"])
                        + Len(g["microsoft"]) <= MaxFetch}}

InitStaticFeeds ==
    /\ cog = "ai_news"
    /\ yt_file = NoFile
    /\ ai_file = NoFile
    /\ ts_file = NoFile
    /\ ai_seen = AINews_init(ai_file).seen
    /\ ts_seen_video_ids = {}
    /\ seen_video_ids = SCYouTubeWatcher_init(yt_file).seen_video_ids
    /\ seen_thread_ids = {}
    /\ seen_ids = {}
    /\ wow_seen_guids = {}
    /\ wow_seen_links = {}
    /\ rsi_seen_guids = <<>>
    /\ first_run = FirstRunAfterInit(cog, yt_file, ai_file)
    /\ last = NoPoll
    /\ loaded_empty = LoadsEmpty(cog, yt_file, ai_file)
    /\ fetched_once = FALSE
    /\ repeat_after_seed = FALSE
    /\ ai_startup_feed \in StaticFeeds
    /\ CommandCogsConstructed

NextAi ==
    \/ check_ai_news
    \/ sleep
    \/ Restart

SpecStaticFeeds == InitStaticFeeds /\ [][NextAi]_vars

\* The watchers while a behaviour follows a cog that serves commands.
WatchersAside(c) ==
    /\ cog = c
    /\ yt_file = NoFile
    /\ ai_file = NoFile
    /\ ts_file = NoFile
    /\ ai_seen = AINews_init(ai_file).seen
    /\ ts_seen_video_ids = {}
    /\ seen_video_ids = SCYouTubeWatcher_init(yt_file).seen_video_ids
    /\ seen_thread_ids = {}
    /\ seen_ids = {}
    /\ wow_seen_guids = {}
    /\ wow_seen_links = {}
    /\ rsi_seen_guids = <<>>
    /\ first_run = TRUE
    /\ last = NoPoll
    /\ loaded_empty = TRUE
    /\ fetched_once = FALSE
    /\ repeat_after_seed = FALSE
    /\ ai_startup_feed = ChangingFeeds

\* The media-request cog: the button callback, the availability poll (the two
\* interleave at each await of the poll), the cancellation of the poll and the
\* restart of the process.
InitMedia == WatchersAside("media_request") /\ CommandCogsConstructed

NextMedia ==
    \/ confirm
    \/ poll_availability
    \/ poll_get_request_status
    \/ poll_channel_send
    \/ cog_unload
    \/ Admin_restart

SpecMedia == InitMedia /\ [][NextMedia]_vars

\* The shopping-list cog: handlers that run concurrently and meet at self._lock.
InitShopping == WatchersAside("shopping_list") /\ CommandCogsConstructed

NextShopping ==
    \/ \E t \in 1..MaxTasks : sl_call(t)
    \/ \E t \in 1..MaxTasks : sl_locked_body(t)
    \/ \E t \in 1..MaxTasks : sl_not_on_list_return(t)
    \/ Admin_restart

SpecShopping == InitShopping /\ [][NextShopping]_vars

\* The birthday cog: its commands (no handler awaits between its load and its
\* save) and the daily check, between whose steps the commands run.
InitBirthdays == WatchersAside("birthdays") /\ CommandCogsConstructed

NextBirthdays ==
    \/ birthday_add
    \/ anniversary_add
    \/ birthday_remove
    \/ anniversary_remove
    \/ daily_check
    \/ daily_check_send
    \/ bd_list
    \/ BirthdayReminder_cog_unload
    \/ Admin_restart

SpecBirthdays == InitBirthdays /\ [][NextBirthdays]_vars

\* -------------------------------------------------------------- properties
\* `last` is the record of the loop iteration that has just returned (last.op =
\* "poll") or was cancelled in a notification (last.op = "cancelled"); the cog's
\* variables then hold the state the iteration left.

Polled == last.op = "poll" /\ last.fetch_ok

\* An iteration has just ended, by its return or by its cancellation.
Iterated == last.op \in {"poll", "cancelled"}

\* The watchers of the process that keep their seen set in a data file.  (The
\* Minecraft-news watcher would be one; the process has none.)
Persisted == Cogs \cap {"sc_youtube", "minecraft_news", "ai_news"}

\* The in-memory seen state of the cog that is followed.
Mem ==
    CASE cog = "sc_youtube" -> seen_video_ids
      [] cog = "patch_notes" -> seen_thread_ids
      [] cog = "nintendo_watcher" -> seen_ids
      [] cog = "wow_patch_notes" -> [guids |-> wow_seen_guids, links |-> wow_seen_links]
      [] cog = "rsi_status" -> rsi_seen_guids
      [] cog = "ai_news" -> ai_seen
      [] cog = "trump_speech" -> ts_seen_video_ids

\* The keys a seen state of the followed cog holds.
Keys(seen) ==
    CASE cog \in {"sc_youtube", "patch_notes", "nintendo_watcher", "trump_speech"} -> seen
      [] cog = "wow_patch_notes" ->
            {<<"guid", g>> : g \in seen.guids} \cup {<<"link", l>> : l \in seen.links}
      [] cog = "rsi_status" -> DOMAIN seen
      [] cog = "ai_news" ->
            UNION {{<<seen[q].k, seen[q].v[i]>> : i \in 1..Len(seen[q].v)} :
                      q \in 1..Len(seen)}

\* The keys the persisted file of the followed cog holds: those a load of it gives.
FileKeys ==
    CASE cog = "sc_youtube" -> Keys(yt_load_seen_ids(yt_file))
      [] cog = "ai_news" -> Keys(ai_load_seen(ai_file))
      [] OTHER -> {}

\* The key under which the followed cog looks an item up.
ItemKey(item) ==
    CASE cog \in {"sc_youtube", "trump_speech"} -> item.video_id
      [] cog \in {"patch_notes", "nintendo_watcher"} -> item.id
      [] cog = "ai_news" -> <<item.provider, item.url>>
      [] cog \in {"rsi_status", "wow_patch_notes"} -> item.guid

FetchedKeys == {ItemKey(last.fetched[i]) : i \in 1..Len(last.fetched)}

\* The notifications of the iteration that reached Discord.
Sent == SelectSeq(last.attempts, LAMBDA a : a.out = "ok")

\* C1 as the specification states it: in the AI-news and SC-YouTube watchers (the
\* process has no Minecraft-news watcher), when the process was started with an
\* empty persisted seen set, the first iteration whose fetch returns a list
\* attempts no notification, and every key of the list is in the in-memory seen set
\* and in the persisted file when the iteration ends.
C1_FirstPollSeeds ==
    (cog \in Persisted /\ Polled /\ last.first_fetch /\ loaded_empty)
        => /\ last.attempts = <<>>
           /\ FetchedKeys \subseteq Keys(Mem)
           /\ FetchedKeys \subseteq FileKeys

\* C2 as the specification states it: in every watcher the first fetch of a process
\* that returns is followed by no notification, whatever the process loaded.
C2_Original == (Polled /\ last.first_fetch) => last.attempts = <<>>

\* C2, amended: a process constructed with an empty seen set (which the watchers
\* without a persisted seen set always are) starts with the first-run flag on, and
\* the first iteration of a process whose fetch returns attempts no notification
\* when the flag is still on as it begins.  An SC-YouTube or AI-news process that
\* loaded a non-empty seen set is constructed with the flag off, and its first
\* fetch is not a seeding pass.  In a process constructed with an empty seen set
\* the flag is off at the first fetch that returns only in AI news and in the
\* Trump-speech watcher, where an earlier iteration in which every fetch raised
\* has cleared it (the defect of C11).
C2_FirstFetchSilentWhileFirstRun ==
    /\ (last.op \in {"init", "restart"} /\ loaded_empty) => first_run
    /\ (Iterated /\ last.fetch_ok /\ last.first_fetch)
        => /\ last.flag0 => last.attempts = <<>>
           /\ ~loaded_empty => (cog \in Persisted /\ ~last.flag0 /\ ~last.seeding)
           /\ cog \notin Persisted => loaded_empty
           /\ (loaded_empty /\ ~last.flag0) => cog \in {"ai_news", "trump_speech"}

C2_Witness ==
    /\ Polled /\ last.first_fetch /\ ~loaded_empty
    /\ last.attempts # <<>>
    /\ \E i \in 1..Len(last.attempts) : ItemKey(last.attempts[i].item) \notin Keys(last.seen0)

\* C3: in the watchers of the process that keep a set of keys (AI news, WoW patch
\* notes, SC patch notes, Nintendo, SC YouTube), the iteration that directly follows
\* the seeding pass and fetches the same list attempts no notification and leaves
\* the seen set as it was.
C3_RepeatAfterSeedSilent ==
    (cog \in Cogs \ {"rsi_status", "trump_speech"} /\ repeat_after_seed)
        => /\ last.attempts = <<>>
           /\ Mem = last.seen0

C3_Witness ==
    /\ cog \in Cogs \ {"rsi_status", "trump_speech"} /\ repeat_after_seed
    /\ Len(last.fetched) = 2
    /\ Keys(Mem) # {}

\* C4 as the specification states it: in the RSI watcher the iteration that directly
\* follows the seeding pass and fetches the same feed attempts no notification,
\* also when two items of the feed have the same guid, or both have none.
C4_RsiRepeatAfterSeedSilent ==
    (cog = "rsi_status" /\ repeat_after_seed) => last.attempts = <<>>

\* The fetched items whose key was not in the seen set when the iteration began.
UnseenAt ==
    {i \in 1..Len(last.fetched) : ItemKey(last.fetched[i]) \notin Keys(last.seen0)}

\* The outcomes after which the followed cog has the item on record: every outcome
\* where the item is recorded before its notification begins (SC patch notes,
\* Nintendo, RSI), every outcome but the cancellation where it is recorded after the
\* notification has returned or raised (AI news).
Marking(out) ==
    CASE cog \in {"patch_notes", "nintendo_watcher", "rsi_status"} -> TRUE
      [] cog = "ai_news" -> out # "cancelled"
      [] cog = "trump_speech" -> out \notin {"llm_raised", "send_raised", "cancelled"}
      [] cog = "wow_patch_notes" -> out = "ok"
      [] cog = "sc_youtube" -> out = "ok"

\* A non-seeding iteration that fetched already-seen items and one unseen item.
OneUnseen ==
    /\ cog \in Persisted /\ Iterated /\ last.fetch_ok /\ ~last.seeding
    /\ Cardinality(UnseenAt) = 1

\* C5 as the specification states it: such an iteration sends exactly one
\* notification and the seen set grows by exactly one key.
C5_Original ==
    (OneUnseen /\ Polled) => /\ Len(Sent) = 1
                 /\ Cardinality(Keys(Mem)) = Cardinality(Keys(last.seen0)) + 1

\* C5, amended: such an iteration of the SC-YouTube or the AI-news watcher attempts
\* exactly one notification, for the unseen item, when the channel is found;
\* otherwise it attempts none and leaves the seen set as it was.  After the attempt
\* the seen set has grown by exactly that key in AI news whether the message was
\* sent or the attempt raised, and in SC YouTube only if the message was sent; an
\* iteration that is cancelled in the attempt leaves the seen set as it was.
C5_OneUnseenItem ==
    OneUnseen =>
        LET item == last.fetched[CHOOSE i \in UnseenAt : TRUE]
        IN  /\ last.new = <<item>>
            /\ IF last.channel_ok
               THEN /\ Len(last.attempts) = 1
                    /\ last.attempts[1].item = item
                    /\ Keys(Mem) =
                          Keys(last.seen0) \cup
                             (IF Marking(last.attempts[1].out)
                              THEN {ItemKey(item)} ELSE {})
               ELSE /\ last.attempts = <<>>
                    /\ Mem = last.seen0

C5_Witness ==
    /\ OneUnseen
    /\ Len(last.fetched) = 2
    /\ Len(last.attempts) = 1
    /\ last.attempts[1].out # "ok"
    /\ Keys(Mem) # Keys(last.seen0)

\* C6: in every watcher but the RSI one, an item whose key was in the seen set when
\* the iteration began has no notification attempted in that iteration, whatever
\* its title; for WoW the key is seen when the guid or the link is in its set.
C6_SeenNotNotified ==
    (Iterated /\ cog # "rsi_status") =>
        \A i \in 1..Len(last.attempts) :
            LET item == last.attempts[i].item
            IN  IF cog = "wow_patch_notes"
                THEN item.guid \notin last.seen0.guids /\ item.link \notin last.seen0.links
                ELSE ItemKey(item) \notin Keys(last.seen0)

C6_Witness ==
    /\ cog = "wow_patch_notes" /\ Polled
    /\ last.attempts # <<>>
    /\ \E i \in 1..Len(last.fetched) :
          /\ wow_is_patch_article(last.fetched[i].title)
          /\ last.fetched[i].link \in last.seen0.links
          /\ wow_parse_item(last.fetched[i]).guid \notin last.seen0.guids

\* The title RSI has on record for the guid of item i of the feed when the loop
\* comes to it, each earlier item having been handled.
RsiRecordedBefore(i) ==
    LET guid == last.new[i].guid
        earlier == {j \in 1..(i - 1) : last.new[j].guid = guid}
    IN  IF earlier = {} THEN rsi_get(last.seen0, guid)
        ELSE last.new[CHOOSE j \in earlier : \A k \in earlier : k <= j].title

\* C7 as the specification states it: in a non-seeding RSI iteration that has the
\* channel, an item is notified exactly when its guid has no title on record or a
\* title other than the item's, and the title on record is the item's afterwards.
C7_RsiNotifiedIffChanged ==
    (cog = "rsi_status" /\ Polled /\ ~last.seeding /\ last.channel_ok) =>
        \A i \in 1..Len(last.new) :
            /\ (\E n \in 1..Len(last.attempts) : last.attempts[n].idx = i)
                  <=> (RsiRecordedBefore(i) = None
                         \/ RsiRecordedBefore(i) # last.new[i].title)
            /\ (\A j \in (i + 1)..Len(last.new) : last.new[j].guid # last.new[i].guid)
                  => rsi_get(rsi_seen_guids, last.new[i].guid) = last.new[i].title

\* C8 as the specification states it: in every watcher an iteration that has the
\* channel comes to every new item of the batch, also after a notification failed.
C8_FailureDoesNotBlock ==
    (Polled /\ last.channel_ok) => last.reached = Len(last.new)

\* The followed cog has the item on record as seen.
Marked(item) ==
    CASE cog = "wow_patch_notes" ->
            item.guid \in wow_seen_guids /\ item.link \in wow_seen_links
      [] cog = "rsi_status" -> item.guid \in DOMAIN rsi_seen_guids
      [] OTHER -> ItemKey(item) \in Keys(Mem)

\* C9 as the specification states it: in every watcher the key of each item whose
\* notification an iteration attempted is in the seen set when the iteration ends,
\* whether or not the notification succeeded.
C9_Original ==
    last.op = "poll" => \A i \in 1..Len(last.attempts) : Marked(last.attempts[i].item)

\* Two items share a key of the followed cog.
SameKey(a, b) ==
    IF cog = "wow_patch_notes" THEN a.guid = b.guid \/ a.link = b.link
    ELSE ItemKey(a) = ItemKey(b)

\* C9, amended: in the AI-news, SC patch-notes, Nintendo and RSI
\* watchers the key of each item whose notification an iteration attempted is in
\* the seen set when the iteration returns, whether the notification succeeded or
\* raised.  The WoW watcher records an item only when its summary was sent, the
\* Trump-speech watcher on every exit but a failed summary request or a raising
\* send, the SC-YouTube watcher only when the send did not raise: there an item
\* whose attempt failed is still unseen when the iteration ends (unless an attempt
\* for the same key succeeded in it), so the next iteration that fetches it
\* attempts it again.  When the loop task is cancelled in a notification, the item
\* is on record only in the watchers that record it before they begin (SC patch
\* notes, Nintendo, RSI).
C9_MarkedAfterAttempt ==
    Iterated =>
        \A i \in 1..Len(last.attempts) :
            LET a == last.attempts[i]
            IN  IF Marking(a.out)
                THEN Marked(a.item)
                ELSE \/ IF cog = "wow_patch_notes"
                        THEN wow_is_new(a.item, Mem)
                        ELSE ItemKey(a.item) \notin Keys(Mem)
                     \/ \E j \in 1..Len(last.attempts) :
                          /\ Marking(last.attempts[j].out)
                          /\ SameKey(last.attempts[j].item, a.item)

C9_Witness ==
    /\ last.op = "poll" /\ cog = "patch_notes"
    /\ Len(last.attempts) = 2
    /\ last.attempts[1].out = "llm_raised"
    /\ last.attempts[2].out = "send_raised"
    /\ \A i \in 1..2 : Marked(last.attempts[i].item)

\* C10: within one process no step removes a key from the in-memory seen set of a
\* watcher (for RSI: a guid stays a key of the guid-to-title map).
C10_SeenKeysStay ==
    [][last'.op # "restart" => Keys(Mem) \subseteq Keys(Mem)']_vars

C10_Witness ==
    /\ Polled /\ ~last.seeding
    /\ Keys(last.seen0) # {}
    /\ \E i \in 1..Len(last.attempts) : last.attempts[i].out # "ok"
    /\ Keys(last.seen0) \subseteq Keys(Mem)
    /\ Keys(last.seen0) # Keys(Mem)

\* A fetch of the iteration raised: the one fetch of the cog, or the fetch of a
\* provider (AI news) or of a channel (Trump speeches).
FetchRaised == last.op = "poll" /\ (~last.fetch_ok \/ last.failed # {})

\* C11 as the specification states it: in every watcher an iteration in which a
\* fetch raised attempts no notification and leaves the seen set, the data file and
\* the first-run flag as they were.
C11_FetchErrorAborts ==
    FetchRaised => /\ last.attempts = <<>>
                   /\ Mem = last.seen0
                   /\ DataFile = last.file0
                   /\ first_run = last.flag0

\* The fetched items whose key was not in the seen set when the iteration began.
UnseenFetched == SelectSeq(last.fetched, LAMBDA it : ItemKey(it) \notin Keys(last.seen0))

\* C12: in AI news the diff is taken over the results of all four provider fetches,
\* and when the fetch of a provider raised, a non-seeding iteration still takes
\* every unseen article the other providers returned as new; with the channel found
\* each of them goes through the notification loop, in order, and is recorded in
\* the seen set and the file.
C12_ProviderFailureIsolated ==
    (cog = "ai_news" /\ last.op = "poll" /\ last.failed # {} /\ ~last.seeding) =>
        /\ last.new = UnseenFetched
        /\ last.channel_ok =>
              /\ [i \in 1..Len(last.attempts) |-> last.attempts[i].item] = UnseenFetched
              /\ \A i \in 1..Len(UnseenFetched) :
                    /\ ItemKey(UnseenFetched[i]) \in Keys(Mem)
                    /\ ItemKey(UnseenFetched[i]) \in FileKeys

C12_Witness ==
    /\ cog = "ai_news" /\ last.op = "poll" /\ ~last.seeding
    /\ "openai" \in last.failed
    /\ Len(last.attempts) = 2
    /\ last.attempts[1].item.provider # last.attempts[2].item.provider
    /\ last.attempts[1].out = "ok"

\* What a new process of the followed cog loads from `file` as its seen state.
Loaded(file) ==
    CASE cog = "sc_youtube" -> yt_load_seen_ids(file)
      [] cog = "ai_news" -> ai_load_seen(file)

\* The file the followed cog writes for the seen state `seen`.
Saved(seen) ==
    CASE cog = "sc_youtube" -> yt_save_seen_ids(seen)
      [] cog = "ai_news" -> ai_save_seen(seen)

\* C13: decoding the JSON text that the save function writes for a seen set gives
\* that seen set back: in SC YouTube for every set of video ids, in AI news for
\* every seen dict the watcher comes to hold (per provider, and in order), in
\* minecraft_news.py for every list of urls; and whenever an iteration has written
\* the data file, what a new process would load from it is the seen set in memory.
C13_LoadOfSaveIsIdentity ==
    /\ \A seen \in SUBSET Range(YtIds) : yt_load_seen_ids(yt_save_seen_ids(seen)) = seen
    /\ \A seen \in SeqsUpTo(McUrls, MaxFetch) : mc_load_seen(mc_save_seen(seen)) = seen
    /\ cog \in Persisted =>
        /\ Loaded(Saved(Mem)) = Mem
        /\ Keys(Loaded(Saved(Mem))) = Keys(Mem)
        /\ (Iterated /\ DataFile # last.file0) => Loaded(DataFile) = Mem

C13_Witness ==
    /\ cog \in Persisted /\ last.op = "restart"
    /\ Cardinality(Keys(Mem)) = 2
    /\ DataFile = Saved(Mem)

\* C14 as the specification states it: in AI news and SC YouTube (and Minecraft
\* news, of which the process has no watcher),
\* when an iteration has ended the data file holds exactly the keys of the
\* in-memory seen set, also when a notification raised.
C14_FileHoldsSeenKeys ==
    (cog \in Persisted /\ last.op = "poll") => FileKeys = Keys(Mem)

\* The article was in the feed of its provider when the bot was first started.
InStartupFeed(article) ==
    /\ ai_startup_feed.static
    /\ \E i \in 1..Len(ai_startup_feed.items[article.provider]) :
          /\ ai_startup_feed.items[article.provider][i].url = article.url
          /\ ai_startup_feed.items[article.provider][i].title = article.title

\* C15 as the specification states it: in an AI news process constructed with no
\* persisted state, no notification is attempted for an article that the feed of
\* its provider held at the start, whatever fetches failed before.
C15_NoBackfill ==
    (cog = "ai_news" /\ loaded_empty /\ last.op = "poll") =>
        \A i \in 1..Len(last.attempts) : ~InStartupFeed(last.attempts[i].item)

\* C16 as the specification states it: in SC YouTube and AI news the notifications
\* one iteration sends are for pairwise different keys, also when the fetched
\* list holds a key twice.
C16_OneNotificationPerKey ==
    (cog \in {"sc_youtube", "ai_news"} /\ last.op = "poll") =>
        \A i, j \in 1..Len(Sent) :
            ItemKey(Sent[i].item) = ItemKey(Sent[j].item) => i = j

\* The iteration found new items and returned because the channel was not found.
NoChannel == last.op = "poll" /\ ~last.seeding /\ last.new # <<>> /\ ~last.channel_ok

\* C17: in AI news and SC YouTube (the process has no Minecraft-news watcher that
\* would poll), an iteration that is not the
\* seeding pass, finds new items and does not find the channel attempts no
\* notification and leaves the in-memory seen set, the data file and the first-run
\* flag as they were, so every new item is still unseen for the next iteration.
C17_NoChannelLeavesStateUnchanged ==
    (cog \in Persisted /\ NoChannel) =>
        /\ last.attempts = <<>>
        /\ Mem = last.seen0
        /\ DataFile = last.file0
        /\ first_run = last.flag0
        /\ ~first_run
        /\ \A i \in 1..Len(last.new) : ItemKey(last.new[i]) \notin Keys(Mem)

C17_Witness ==
    /\ cog = "ai_news"
    /\ NoChannel
    /\ Len(last.new) = 2
    /\ Keys(Mem) = {}
    /\ DataFile.exists

\* C18 as the specification states it: in the Trump speech watcher, when an
\* iteration processes a video, every video id of the speech records that were in
\* the data file when the iteration began was in the in-memory seen set then.
C18_RecordedIdsSeenBeforeProcessing ==
    (cog = "trump_speech" /\ last.op = "poll" /\ last.attempts # <<>>) =>
        ts_recorded_ids(ts_load_data(last.file0).speeches, 1) \subseteq last.seen0

\* The ways _process_video returns normally, the failed summary apart.
TsMarkingExits ==
    {"no_duration", "too_short", "covered", "no_captions", "same_transcript", "ok"}

\* C19: in the Trump speech watcher a video whose summary request failed is not in
\* the seen set when the iteration ends, and it wrote no speech record: the data
\* file has one record more for every video posted and for nothing else, and is
\* what it was when the summary failed for every video.  A video is in the seen
\* set after every other exit of _process_video that returns normally.
C19_FailedSummaryRetried ==
    (cog = "trump_speech" /\ Iterated) =>
        /\ \A i \in 1..Len(last.attempts) :
              /\ last.attempts[i].out = "llm_raised" =>
                    last.attempts[i].item.video_id \notin ts_seen_video_ids
              /\ last.attempts[i].out \in TsMarkingExits =>
                    last.attempts[i].item.video_id \in ts_seen_video_ids
        /\ Len(ts_load_data(ts_file).speeches)
              = Len(ts_load_data(last.file0).speeches) + Len(Sent)
        /\ (/\ last.attempts # <<>>
            /\ \A i \in 1..Len(last.attempts) : last.attempts[i].out = "llm_raised") =>
              /\ ts_file = last.file0
              /\ ts_seen_video_ids = last.seen0

C19_Witness ==
    /\ cog = "trump_speech"
    /\ last.op = "poll"
    /\ Len(last.attempts) = 2
    /\ last.attempts[1].out = "llm_raised"
    /\ last.attempts[2].out = "ok"
    /\ last.attempts[1].item.video_id \notin ts_seen_video_ids
    /\ last.attempts[2].item.video_id \in ts_seen_video_ids

\* The speech records of a data file.
Speeches(file) == ts_load_data(file).speeches

\* The record is of the same date as the video and of a similar topic (line 376).
Covers(speech, video) ==
    /\ speech.date = ts_pub_date(video.published)
    /\ ts_topics_similar(speech.topic, ts_extract_topic(video.title))

\* C20 as the specification states it: a video processed while a persisted record
\* has its date and a similar topic is not posted, and its id is among the video
\* ids of that record when the iteration ends.
C20_Original ==
    (cog = "trump_speech" /\ last.op = "poll") =>
        \A i \in 1..Len(last.attempts) :
            \A n \in 1..Len(Speeches(last.file0)) :
                Covers(Speeches(last.file0)[n], last.attempts[i].item) =>
                    /\ last.attempts[i].out # "ok"
                    /\ last.attempts[i].item.video_id
                          \in Range(Speeches(ts_file)[n].video_ids)

\* C20: in the Trump speech watcher a video processed while a persisted record has
\* its date and a similar topic leaves _process_video at the duration check or at
\* the check of the records (or the task is cancelled while the duration is
\* requested), so it is never summarised or posted; a video that
\* leaves at the check of the records or of the transcript hashes has its id in a
\* record (for the former one of its date and a similar topic); no record holds a
\* video id twice; and no two records are of the same date and similar topics or
\* of the same transcript hash, i.e. nothing was posted that matched a record.
C20_CoveredVideoNotPosted ==
    (cog = "trump_speech" /\ last.op \in {"poll", "cancelled", "idle", "restart"}) =>
        /\ \A i \in 1..Len(last.attempts) :
              LET video == last.attempts[i].item
                  out == last.attempts[i].out
              IN  /\ (\E n \in 1..Len(Speeches(last.file0)) :
                          Covers(Speeches(last.file0)[n], video))
                        => out \in {"no_duration", "too_short", "covered", "cancelled"}
                  /\ out = "covered" =>
                        \E n \in 1..Len(Speeches(ts_file)) :
                            /\ Covers(Speeches(ts_file)[n], video)
                            /\ video.video_id \in Range(Speeches(ts_file)[n].video_ids)
                  /\ out = "same_transcript" =>
                        \E n \in 1..Len(Speeches(ts_file)) :
                            /\ video.video_id \in Range(Speeches(ts_file)[n].video_ids)
                            /\ Speeches(ts_file)[n].video_ids[1] # video.video_id
        /\ \A n \in 1..Len(Speeches(ts_file)) :
              \A j, k \in 1..Len(Speeches(ts_file)[n].video_ids) :
                  Speeches(ts_file)[n].video_ids[j] = Speeches(ts_file)[n].video_ids[k]
                      => j = k
        /\ \A m, n \in 1..Len(Speeches(ts_file)) :
              m # n =>
                  /\ ~(/\ Speeches(ts_file)[m].date = Speeches(ts_file)[n].date
                        /\ ts_topics_similar(Speeches(ts_file)[m].topic,
                                             Speeches(ts_file)[n].topic))
                  /\ Speeches(ts_file)[m].transcript_hash
                        # Speeches(ts_file)[n].transcript_hash

C20_Witness ==
    /\ cog = "trump_speech"
    /\ last.op = "poll"
    /\ Len(last.attempts) = 2
    /\ last.attempts[1].out = "covered"
    /\ last.attempts[2].out = "same_transcript"
    /\ Len(Speeches(last.file0)) = 1
    /\ Len(Speeches(ts_file)) = 1
    /\ Len(Speeches(ts_file)[1].video_ids) = 3

\* A poll_availability call has ended, by its return or by an exception.
MrPollEnded == mr_poll.ended \in {"completed", "RuntimeError"}

\* The requests the latest poll found available and handled without an exception.
MrHandled ==
    {mr_poll.checked[i].id : i \in {j \in 1..Len(mr_poll.checked) :
                                       mr_poll.checked[j].out \in {"sent", "no_channel"}}}

\* C21 as the specification states it: in the media-request cog no poll fails,
\* whatever is confirmed while it is suspended, and when a poll has ended none of
\* the requests it resolved is pending.
C21_ConfirmDuringPollHarmless ==
    cog = "media_request" =>
        /\ mr_poll.pc # "failed"
        /\ MrPollEnded => \A i \in 1..Len(mr_poll.resolved) :
                              mr_poll.resolved[i] \notin Range(mr_pending)

\* C22 as the specification states it: at most one availability message is sent
\* per request, and when a poll has ended a request that was pending at its start
\* has left the pending map if and only if the poll found it available and handled
\* it without an exception.
C22_ResolvedOnceAndRemoved ==
    cog = "media_request" =>
        /\ \A n \in 1..MaxRequests : mr_hist.sent[n] <= 1
        /\ MrPollEnded => \A i \in 1..Len(mr_poll.pending0) :
                              (mr_poll.pending0[i] \notin Range(mr_pending))
                                  <=> (mr_poll.pending0[i] \in MrHandled)

\* C23 as the specification states it: in the shopping-list cog, whenever no
\* handler holds the lock, the list read from shopping_list.json is the in-memory
\* list.
C23_FileEqualsList ==
    (cog = "shopping_list" /\ sl_lock = 0) => sl_load_list(sl_file) = sl_items

\* The days of the months of a leap year.
MonthDays == <<31, 29, 31, 30, 31, 30, 31, 31, 30, 31, 30, 31>>

\* The first two fields of the argument are numerals of a month and of a day of it.
NamesADay(date_str) ==
    LET parts == bd_split(date_str, 1, <<>>)
    IN  /\ Len(parts) >= 2
        /\ \E m \in 1..12 : \E d \in 1..MonthDays[m] :
              bd_int(parts[1], 1, 0) = m /\ bd_int(parts[2], 1, 0) = d

\* No two entries of the list have names that are equal ignoring case.
NamesDiffer(entries) ==
    \A i, j \in 1..Len(entries) :
        bd_lower(entries[i].name) = bd_lower(entries[j].name) => i = j

\* C24: in the birthday cog, whatever adds and removes were issued, no two stored
\* birthdays (and no two stored anniversaries) have names that are equal ignoring
\* case; an add that found the name or that was given a date naming no day of a
\* month left the data file as it was.
C24_NamesUnique ==
    cog = "birthdays" =>
        /\ NamesDiffer(bd_load_data(bd_file).birthdays)
        /\ NamesDiffer(bd_load_data(bd_file).anniversaries)
        /\ (bd_last.op = "add" /\ bd_last.out \in {"exists", "invalid"})
              => ~bd_last.changed
        /\ (bd_last.op = "add" /\ ~NamesADay(bd_last.date_str)) => ~bd_last.changed
        /\ (bd_last.op = "add" /\ bd_last.out = "added") => bd_last.changed

C24_Witness ==
    /\ cog = "birthdays"
    /\ bd_last.op = "add"
    /\ bd_last.out = "exists"
    /\ ~bd_last.changed
    /\ Len(bd_load_data(bd_file).birthdays) = 2
    /\ bd_load_data(bd_file).anniversaries = <<>>

\* C25 as the specification states it: in the birthday cog neither the daily
\* check nor a list command raises on the dates the add commands stored.
C25_StoredDatesNeverRaise ==
    (cog = "birthdays" /\ bd_last.op \in {"daily_check", "list"}) =>
        bd_last.out # "ValueError"

====
